---------------------------- MODULE Spec2Model ----------------------------
(***************************************************************************)
(* A model of the M3 codec of m3.py: the schema interpreter (structure     *)
(* histories, descriptions, field descriptors), the byte codec, the save   *)
(* path (validateInstance, modelToSections, saveSections) and the load     *)
(* path (loadSections, resolveReferencesOfSections,                        *)
(* checkThatAllSectionsGotReferenced, loadModel).                          *)
(*                                                                         *)
(* Python objects live in `heap`, a sequence indexed by object identity.   *)
(* A Python value is a record [k, n, s]:                                   *)
(*   k = "int"    n is the integer                                         *)
(*   k = "float"  n is the value in units of 1/510 (the grid on which      *)
(*                Fixed8Field decodes: (b/255*2)-1 = (4b-510)/510)         *)
(*   k = "str"    s is the string's character codes                        *)
(*   k = "bytes"  s is the bytes                                           *)
(*   k = "none"   None                                                     *)
(*   k = "absent" the attribute does not exist                             *)
(*   k = "obj"    n is the identity of a heap object                       *)
(* A heap object is a record [k, d, f, e]:                                 *)
(*   k = "M3Structure" d its structure description, f its field values     *)
(*   k = "list"        f its elements (values)                             *)
(*   k = "bytearray"   e its bytes                                         *)
(*   k = "str"         e its character codes                               *)
(*                                                                         *)
(* A result that is used more than once is named by a bound variable,      *)
(*     CHOOSE out \in { ... r ... : r \in {e} } : TRUE                      *)
(* in an operator and \E r \in {e} : ... in an action: e is computed once.  *)
(***************************************************************************)
EXTENDS Integers, Sequences, FiniteSets, TLC

None == <<>>
Some(x) == <<x>>

IntV(n) == [k |-> "int", n |-> n, s |-> <<>>]
FloatV(n) == [k |-> "float", n |-> n, s |-> <<>>]
StrV(codes) == [k |-> "str", n |-> 0, s |-> codes]
BytesV(bs) == [k |-> "bytes", n |-> 0, s |-> bs]
NoneV == [k |-> "none", n |-> 0, s |-> <<>>]
AbsentV == [k |-> "absent", n |-> 0, s |-> <<>>]
ObjV(id) == [k |-> "obj", n |-> id, s |-> <<>>]

NoDesc == [structureName |-> <<>>, structureVersion |-> 0, fields |-> <<>>,
           size |-> 0, isPrimitive |-> FALSE]

StructObj(desc, fieldValues) ==
    [k |-> "M3Structure", d |-> desc, f |-> fieldValues, e |-> <<>>]

ListObj(elems) == [k |-> "list", d |-> NoDesc, f |-> elems, e |-> <<>>]
ByteArrayObj(bs) == [k |-> "bytearray", d |-> NoDesc, f |-> <<>>, e |-> bs]
StrObj(codes) == [k |-> "str", d |-> NoDesc, f |-> <<>>, e |-> codes]

RECURSIVE SumSeq(_)
SumSeq(q) == IF q = <<>> THEN 0 ELSE Head(q) + SumSeq(Tail(q))

Pow256(i) ==
    CASE i = 0 -> 1 [] i = 1 -> 256 [] i = 2 -> 65536 [] i = 3 -> 16777216

\* A 4-byte integer whose top byte is not zero is held as the value Far with
\* its four bytes in s, so that every number of the model stays far below
\* 2^31; all files and counts of the model are smaller than Far by orders of
\* magnitude, so a comparison with them has the outcome of the real number.
Far == Pow256(3)
Big(bs) == [k |-> "int", n |-> Far, s |-> bs]
IsBig(v) == v.k = "int" /\ v.s # <<>>
\* a < b on two integers
IntLess(a, b) ==
    IF IsBig(a) /\ IsBig(b)
    THEN \E i \in 1..4 : a.s[i] < b.s[i] /\ \A j \in (i + 1)..4 : a.s[j] = b.s[j]
    ELSE a.n < b.n

\* a - b for a >= b, Far standing for every difference of Far and above
IntMinus(a, b) ==
    LET low(v) == v.s[1] + 256 * v.s[2] + 65536 * v.s[3]
        d == IF IsBig(a) /\ IsBig(b)
             THEN IF a.s[4] = b.s[4] THEN low(a) - low(b) ELSE Far
             ELSE IF IsBig(a)
             THEN IF a.s[4] = 1 THEN Far - b.n + low(a) ELSE Far
             ELSE a.n - b.n
    IN IF d > Far THEN Far ELSE d

\* struct.Struct("<I"/"<H"/"<B").pack: little-endian, w bytes
LE(n, w) == [i \in 1..w |-> (n \div Pow256(i - 1)) % 256]
\* struct.unpack of an unsigned little-endian integer
UnLE(bs) == SumSeq([i \in 1..Len(bs) |-> bs[i] * Pow256(i - 1)])

Slice(q, from, to) ==
    \* Python q[from:to] on a 0-based sequence, clipped to its length
    LET a == IF from > Len(q) THEN Len(q) ELSE from
        b == IF to > Len(q) THEN Len(q) ELSE to
    IN IF b <= a THEN <<>> ELSE SubSeq(q, a + 1, b)

Repeat(x, n) == [i \in 1..n |-> x]

RECURSIVE Concat(_)
Concat(qs) == IF qs = <<>> THEN <<>> ELSE Head(qs) \o Concat(Tail(qs))

----------------------------------------------------------------------------
(* increaseToValidSectionSize *)

blockSize == 16
FillByte == 170

increaseToValidSectionSizeOff(size) ==
    size + (blockSize - (size % blockSize))

increaseToValidSectionSize(size) ==
    LET incompleteBlockBytes == size % blockSize
    IN IF incompleteBlockBytes # 0
       THEN size + (blockSize - incompleteBlockBytes)
       ELSE size

----------------------------------------------------------------------------
(* Field descriptors: the classes Field, TagField, ReferenceField and its   *)
(* subclasses, EmbeddedStructureField, IntField, Fixed8Field,               *)
(* UnknownBytesField.  A descriptor is a record; `cls` names its class.     *)

primitiveFieldTypeSizes(typeString) ==
    CASE typeString = "uint32" -> 4 [] typeString = "int32" -> 4
      [] typeString = "uint16" -> 2 [] typeString = "int16" -> 2
      [] typeString = "uint8" -> 1 [] typeString = "int8" -> 1
      [] typeString = "float" -> 4 [] typeString = "tag" -> 4
      [] typeString = "fixed8" -> 1

intTypeToMinValue(typeString) ==
    CASE typeString = "int16" -> -32768 [] typeString = "uint16" -> 0
      [] typeString = "int32" -> 0 - 2147483647 - 1 [] typeString = "uint32" -> 0
      [] typeString = "int8" -> -128 [] typeString = "uint8" -> 0

intTypeToMaxValue(typeString) ==
    CASE typeString = "int16" -> 32767 [] typeString = "uint16" -> 65535
      [] typeString = "int32" -> 2147483647 [] typeString = "uint32" -> 2147483647
      [] typeString = "int8" -> 127 [] typeString = "uint8" -> 255

Field(name, cls, size, sinceVersion, tillVersion) ==
    [name |-> name, cls |-> cls, size |-> size, typeString |-> "",
     sinceVersion |-> sinceVersion, tillVersion |-> tillVersion,
     defaultValue |-> NoneV, expectedValue |-> None,
     structureDescription |-> NoDesc, historyOfReferencedStructures |-> None,
     minValue |-> 0, maxValue |-> 0]

TagField(name, sinceVersion, tillVersion) ==
    [Field(name, "TagField", 4, sinceVersion, tillVersion) EXCEPT !.typeString = "tag"]

IntField(name, typeString, sinceVersion, tillVersion, defaultValue, expectedValue) ==
    [Field(name, "IntField", primitiveFieldTypeSizes(typeString), sinceVersion, tillVersion)
       EXCEPT !.typeString = typeString, !.defaultValue = defaultValue,
              !.expectedValue = expectedValue,
              !.minValue = intTypeToMinValue(typeString),
              !.maxValue = intTypeToMaxValue(typeString)]

Fixed8Field(name, sinceVersion, tillVersion, defaultValue, expectedValue) ==
    [Field(name, "Fixed8Field", primitiveFieldTypeSizes("fixed8"), sinceVersion, tillVersion)
       EXCEPT !.typeString = "fixed8", !.defaultValue = defaultValue,
              !.expectedValue = expectedValue]

UnknownBytesField(name, size, sinceVersion, tillVersion, defaultValue, expectedValue) ==
    [Field(name, "UnknownBytesField", size, sinceVersion, tillVersion)
       EXCEPT !.defaultValue = defaultValue, !.expectedValue = expectedValue]

\* cls is the subclass FieldListCreator.visitFieldEnd selects from refTo
ReferenceField(name, cls, refDesc, historyOfReferencedStructures, sinceVersion, tillVersion) ==
    [Field(name, cls, refDesc.size, sinceVersion, tillVersion)
       EXCEPT !.structureDescription = refDesc,
              !.historyOfReferencedStructures = historyOfReferencedStructures]

EmbeddedStructureField(name, structureDescription, sinceVersion, tillVersion) ==
    [Field(name, "EmbeddedStructureField", structureDescription.size, sinceVersion, tillVersion)
       EXCEPT !.structureDescription = structureDescription]

ReferenceClasses == {"CharReferenceField", "ByteReferenceField", "RealReferenceField",
                     "IntReferenceField", "StructureReferenceField",
                     "UnknownReferenceField"}

IsReferenceField(field) == field.cls \in ReferenceClasses

----------------------------------------------------------------------------
(* Structure names (character codes) *)

N_CHAR == <<67, 72, 65, 82>>
N_U8 == <<85, 56, 95, 95>>
N_REAL == <<82, 69, 65, 76>>
N_I16 == <<73, 49, 54, 95>>
N_U16 == <<85, 49, 54, 95>>
N_I32 == <<73, 51, 50, 95>>
N_U32 == <<85, 51, 50, 95>>
N_FLAG == <<70, 76, 65, 71>>
N_MD34 == <<77, 68, 51, 52>>
N_MODL == <<77, 79, 68, 76>>
N_DIV == <<68, 73, 86>>
N_BOX == <<66, 79, 88, 95>>
N_Reference == <<82, 101, 102, 101, 114, 101, 110, 99, 101>>
N_MD34IndexEntry == <<77, 68, 51, 52, 73, 110, 100, 101, 120, 69, 110, 116, 114, 121>>

structureNamesOfPrimitiveTypes ==
    {N_CHAR, N_U8, N_REAL, N_I16, N_U16, N_I32, N_U32, N_FLAG}

----------------------------------------------------------------------------
(* M3StructureHistory and M3StructureDescription *)

M3StructureHistory(name, versionToSizeMap, allFields) ==
    [name |-> name, versionToSizeMap |-> versionToSizeMap, allFields |-> allFields,
     isPrimitive |-> name \in structureNamesOfPrimitiveTypes]

M3StructureDescription(structureName, structureVersion, fields, specifiedSize) ==
    [structureName |-> structureName, structureVersion |-> structureVersion,
     fields |-> fields, size |-> specifiedSize,
     isPrimitive |-> structureName \in structureNamesOfPrimitiveTypes]

calculatedSize(fields) == SumSeq([i \in 1..Len(fields) |-> fields[i].size])

\* lines 94-98 without the test of field.tillVersion
includeFieldSinceOnly(field, version) ==
    ~(field.sinceVersion # None /\ version < field.sinceVersion[1])

includeField(field, version) ==
    /\ ~(field.sinceVersion # None /\ version < field.sinceVersion[1])
    /\ ~(field.tillVersion # None /\ version > field.tillVersion[1])

usedFields(history, version) ==
    SelectSeq(history.allFields, LAMBDA field : includeField(field, version))

\* a getVersion whose M3StructureDescription does not validate its size
getVersionUnvalidated(history, version) ==
    IF version \notin DOMAIN history.versionToSizeMap
    THEN [r |-> "none", desc |-> NoDesc]
    ELSE [r |-> "ok",
          desc |-> M3StructureDescription(history.name, version,
                                          usedFields(history, version),
                                          history.versionToSizeMap[version])]

\* M3StructureHistory.getVersion: r = "ok" with the description, "none" for a
\* version the schema does not declare, "raise" for the size mismatch of
\* M3StructureDescription.__init__
getVersion(history, version) ==
    IF version \notin DOMAIN history.versionToSizeMap
    THEN [r |-> "none", desc |-> NoDesc]
    ELSE LET fields == usedFields(history, version)
             specifiedSize == history.versionToSizeMap[version]
         IN IF calculatedSize(fields) # specifiedSize
            THEN [r |-> "raise", desc |-> NoDesc]
            ELSE [r |-> "ok",
                  desc |-> M3StructureDescription(history.name, version, fields,
                                                  specifiedSize)]

----------------------------------------------------------------------------
(* The schema (structures.xml), as the registry readStructureDefinitions    *)
(* returns for it, in document order:                                       *)
(*   Reference V0 (12): entries uint32, index uint32, flags uint32          *)
(*   CHAR V0 (1): value uint8          U8__ V0 (1): value uint8             *)
(*   MD34IndexEntry V0 (16): tag, offset, repetitions, version              *)
(*   DIV V0 (16): val uint8, fx fixed8, pad 2 bytes expected 0x0000,        *)
(*                data Reference refTo U8__                                 *)
(*   MODL V0 (37): magic uint8 expected 1, nodes Reference refTo DIV,       *)
(*                 extra Reference refTo DIV, name Reference refTo CHAR     *)
(*   MODL V1 (50): V0 and, since version 1, unk Reference (no refTo) and    *)
(*                 q fixed8 expected -1.0                                   *)
(*   MODL V2 (62): V1 and, since version 2, box: an embedded BOX_ V0        *)
(*   BOX_ V0 (12): data Reference refTo U8__ (defined before MODL)          *)
(*   MD34 V11 (24): tag, indexOffset, indexSize, model Reference refTo MODL *)

ReferenceHistory ==
    M3StructureHistory(N_Reference, (0 :> 12),
        << IntField("entries", "uint32", None, None, IntV(0), None),
           IntField("index", "uint32", None, None, IntV(0), None),
           IntField("flags", "uint32", None, None, IntV(0), None) >>)

ReferenceV0 == getVersion(ReferenceHistory, 0).desc

CharHistory ==
    M3StructureHistory(N_CHAR, (0 :> 1),
        << IntField("value", "uint8", None, None, IntV(0), None) >>)

U8History ==
    M3StructureHistory(N_U8, (0 :> 1),
        << IntField("value", "uint8", None, None, IntV(0), None) >>)

IndexEntryHistory ==
    M3StructureHistory(N_MD34IndexEntry, (0 :> 16),
        << TagField("tag", None, None),
           IntField("offset", "uint32", None, None, IntV(0), None),
           IntField("repetitions", "uint32", None, None, IntV(0), None),
           IntField("version", "uint32", None, None, IntV(0), None) >>)

DivHistory ==
    M3StructureHistory(N_DIV, (0 :> 16),
        << IntField("val", "uint8", None, None, IntV(0), None),
           Fixed8Field("fx", None, None, FloatV(0), None),
           UnknownBytesField("pad", 2, None, None, BytesV(<<0, 0>>), Some(BytesV(<<0, 0>>))),
           ReferenceField("data", "ByteReferenceField", ReferenceV0, Some(N_U8), None, None) >>)

BoxHistory ==
    M3StructureHistory(N_BOX, (0 :> 12),
        << ReferenceField("data", "ByteReferenceField", ReferenceV0, Some(N_U8), None, None) >>)

BoxV0 == getVersion(BoxHistory, 0).desc

ModlHistory ==
    M3StructureHistory(N_MODL, (0 :> 37 @@ 1 :> 50 @@ 2 :> 62),
        << IntField("magic", "uint8", None, None, IntV(1), Some(IntV(1))),
           ReferenceField("nodes", "StructureReferenceField", ReferenceV0, Some(N_DIV), None, None),
           ReferenceField("extra", "StructureReferenceField", ReferenceV0, Some(N_DIV), None, None),
           ReferenceField("name", "CharReferenceField", ReferenceV0, Some(N_CHAR), None, None),
           ReferenceField("unk", "UnknownReferenceField", ReferenceV0, None, Some(1), None),
           Fixed8Field("q", Some(1), None, FloatV(-510), Some(FloatV(-510))),
           EmbeddedStructureField("box", BoxV0, Some(2), None) >>)

Md34History ==
    M3StructureHistory(N_MD34, (11 :> 24),
        << TagField("tag", None, None),
           IntField("indexOffset", "uint32", None, None, IntV(0), None),
           IntField("indexSize", "uint32", None, None, IntV(0), None),
           ReferenceField("model", "StructureReferenceField", ReferenceV0, Some(N_MODL), None, None) >>)

structures ==
    << ReferenceHistory, CharHistory, U8History, IndexEntryHistory,
       DivHistory, BoxHistory, ModlHistory, Md34History >>

\* structures.get(name)
structuresGet(name) ==
    CHOOSE out \in {
        IF \E i \in 1..Len(s) : s[i].name = name
        THEN Some(s[CHOOSE i \in 1..Len(s) : s[i].name = name])
        ELSE None
        : s \in {structures} } : TRUE

MD34V11 == getVersion(Md34History, 11).desc
MD34IndexEntryV0 == getVersion(IndexEntryHistory, 0).desc
ModlV0 == getVersion(ModlHistory, 0).desc
ModlV2 == getVersion(ModlHistory, 2).desc
DivV0 == getVersion(DivHistory, 0).desc

FieldIndex(desc, fieldName) ==
    CHOOSE i \in 1..Len(desc.fields) : desc.fields[i].name = fieldName

\* getattr(obj, fieldName) and setattr on an M3Structure of the heap
GetAttr(h, id, fieldName) == h[id].f[FieldIndex(h[id].d, fieldName)]
SetAttr(h, id, fieldName, v) ==
    [h EXCEPT ![id].f[FieldIndex(h[id].d, fieldName)] = v]

----------------------------------------------------------------------------
(* Python's len(), type tests and id() on values *)

IsObj(h, v, kind) == v.k = "obj" /\ h[v.n].k = kind
IsStructure(h, v) == IsObj(h, v, "M3Structure")
\* hasattr(v, "__len__")
HasLen(h, v) ==
    \/ v.k \in {"str", "bytes"}
    \/ v.k = "obj" /\ h[v.n].k \in {"list", "bytearray", "str"}

PyLen(h, v) ==
    IF v.k = "obj"
    THEN (IF h[v.n].k = "list" THEN Len(h[v.n].f) ELSE Len(h[v.n].e))
    ELSE Len(v.s)

\* type(v) == str, and its characters
IsStr(h, v) == v.k = "str" \/ IsObj(h, v, "str")
StrCodes(h, v) == IF v.k = "obj" THEN h[v.n].e ELSE v.s
\* type(v) in (bytes, bytearray), and its bytes
IsByteString(h, v) == v.k = "bytes" \/ IsObj(h, v, "bytearray")
ByteCodes(h, v) == IF v.k = "obj" THEN h[v.n].e ELSE v.s
IsAscii(codes) == \A i \in 1..Len(codes) : codes[i] < 128

----------------------------------------------------------------------------
(* Writing: Field.writeToBuffer of every class, M3Structure.writeToBuffer.  *)
(* A result is [ok, b]: ok = FALSE when the Python code raises.             *)

WriteFail == [ok |-> FALSE, b |-> <<>>]
WriteOk(bs) == [ok |-> TRUE, b |-> bs]

\* TagField.writeToBuffer
TagFieldWrite(h, v) ==
    IF ~IsStr(h, v) THEN WriteFail
    ELSE LET s == StrCodes(h, v)
         IN IF Len(s) = 4
            THEN (IF IsAscii(s) THEN WriteOk(<<s[4], s[3], s[2], s[1]>>) ELSE WriteFail)
            ELSE IF Len(s) < 3 THEN WriteFail
            ELSE IF IsAscii(SubSeq(s, 1, 3)) THEN WriteOk(<<s[3], s[2], s[1], 0>>)
            ELSE WriteFail

\* PrimitiveField.writeToBuffer of an IntField: struct.pack_into
IntFieldWrite(field, v) ==
    IF IsBig(v)
    THEN IF field.typeString = "uint32" THEN WriteOk(v.s) ELSE WriteFail
    ELSE IF v.k = "int" /\ v.n >= field.minValue /\ v.n <= field.maxValue
    THEN IF field.size = 4 THEN WriteOk(LE(v.n, 4))
         ELSE WriteOk(LE((v.n + Pow256(field.size)) % Pow256(field.size), field.size))
    ELSE WriteFail

\* Python's round() of x/4: to the nearest integer, halves to the even one
RoundQuarter(x) ==
    LET q == x \div 4
        r == x % 4
    IN IF r < 2 THEN q
       ELSE IF r > 2 THEN q + 1
       ELSE IF q % 2 = 0 THEN q ELSE q + 1

\* the value of a float or int in units of 1/510
Units510(v) == IF v.k = "int" THEN 510 * v.n ELSE v.n

\* Fixed8Field.writeToBuffer: intValue = round((floatValue+1) / 2.0 * 255.0)
Fixed8Encode(v) == RoundQuarter(Units510(v) + 510)
Fixed8FieldWrite(v) ==
    IF v.k \in {"float", "int"} /\ Fixed8Encode(v) >= 0 /\ Fixed8Encode(v) <= 255
    THEN WriteOk(<<Fixed8Encode(v)>>)
    ELSE WriteFail

\* UnknownBytesField.writeToBuffer: struct "<Ns" truncates or pads with zeros
UnknownBytesFieldWrite(field, h, v) ==
    IF ~IsByteString(h, v) THEN WriteFail
    ELSE LET bs == ByteCodes(h, v)
         IN WriteOk([i \in 1..field.size |-> IF i <= Len(bs) THEN bs[i] ELSE 0])

RECURSIVE M3StructureWriteToBuffer(_, _)
FieldWriteToBuffer(field, h, v) ==
    CASE field.cls = "TagField" -> TagFieldWrite(h, v)
      [] field.cls = "IntField" -> IntFieldWrite(field, v)
      [] field.cls = "Fixed8Field" -> Fixed8FieldWrite(v)
      [] field.cls = "UnknownBytesField" -> UnknownBytesFieldWrite(field, h, v)
      [] OTHER ->
           \* ReferenceField / EmbeddedStructureField: the field must hold
           \* an M3Structure (the Reference record or the embedded structure)
           IF IsStructure(h, v) THEN M3StructureWriteToBuffer(h, v.n) ELSE WriteFail

M3StructureWriteToBuffer(h, id) ==
    CHOOSE out \in {
        IF \A i \in 1..Len(parts) : parts[i].ok
        THEN WriteOk(Concat([i \in 1..Len(parts) |-> parts[i].b]))
        ELSE WriteFail
        : parts \in {[i \in 1..Len(h[id].d.fields) |->
                        FieldWriteToBuffer(h[id].d.fields[i], h, h[id].f[i])]} } : TRUE

----------------------------------------------------------------------------
(* M3StructureDescription: countInstances, countBytesRequiredForInstances,  *)
(* instancesToBytes.  [ok, n] / [ok, b]                                     *)

countInstances(desc, h, instances) ==
    IF desc.structureName = N_CHAR
    THEN (IF instances.k = "none" THEN [ok |-> TRUE, n |-> 0]
          ELSE IF HasLen(h, instances) THEN [ok |-> TRUE, n |-> PyLen(h, instances) + 1]
          ELSE [ok |-> FALSE, n |-> 0])
    ELSE IF HasLen(h, instances) THEN [ok |-> TRUE, n |-> PyLen(h, instances)]
    ELSE [ok |-> FALSE, n |-> 0]

countBytesRequiredForInstances(desc, h, instances) ==
    IF desc.structureName = N_CHAR
    THEN (IF HasLen(h, instances) THEN [ok |-> TRUE, n |-> PyLen(h, instances) + 1]
          ELSE [ok |-> FALSE, n |-> 0])
    ELSE CHOOSE out \in {
             [ok |-> c.ok, n |-> desc.size * c.n]
             : c \in {countInstances(desc, h, instances)} } : TRUE

instancesToBytes(desc, h, instances) ==
    IF desc.structureName = N_CHAR
    THEN (IF IsStr(h, instances) /\ IsAscii(StrCodes(h, instances))
          THEN WriteOk(StrCodes(h, instances) \o <<0>>) ELSE WriteFail)
    ELSE IF desc.structureName = N_U8
    THEN (IF IsByteString(h, instances) THEN WriteOk(ByteCodes(h, instances)) ELSE WriteFail)
    ELSE IF ~IsObj(h, instances, "list") THEN WriteFail
    ELSE CHOOSE out \in {
             IF \A i \in 1..Len(parts) : parts[i].ok
             THEN WriteOk(Concat([i \in 1..Len(parts) |-> parts[i].b]))
             ELSE WriteFail
             : parts \in {[i \in 1..Len(h[instances.n].f) |->
                             IF desc.isPrimitive
                             THEN IntFieldWrite(desc.fields[1], h[instances.n].f[i])
                             ELSE IF IsStructure(h, h[instances.n].f[i])
                                  THEN M3StructureWriteToBuffer(h, h[instances.n].f[i].n)
                                  ELSE WriteFail]} } : TRUE

----------------------------------------------------------------------------
(* Reading: Field.readFromBuffer of every class, M3Structure.__init__ from  *)
(* a buffer, M3StructureDescription.createInstances.  Results carry the     *)
(* heap, since reading creates objects: [ok, h, v].                         *)

Alloc(h, obj) == [h |-> Append(h, obj), v |-> ObjV(Len(h) + 1)]
\* a newly created object as the result of a read
ReadNew(h, obj) == [ok |-> TRUE, h |-> Append(h, obj), v |-> ObjV(Len(h) + 1)]
ReadFail(h) == [ok |-> FALSE, h |-> h, v |-> NoneV]
ReadOk(h, v) == [ok |-> TRUE, h |-> h, v |-> v]

\* struct.unpack_from(buffer, offset) needs size bytes at offset
CanUnpack(buffer, offset, size) == offset + size <= Len(buffer)

\* a reader that takes every tag to have 4 characters
TagFieldReadFour(buffer, offset) ==
    StrV(<<buffer[offset + 4], buffer[offset + 3], buffer[offset + 2], buffer[offset + 1]>>)

\* TagField.readFromBuffer
TagFieldRead(buffer, offset) ==
    LET b == SubSeq(buffer, offset + 1, offset + 4)
    IN IF b[4] = 0 THEN StrV(<<b[3], b[2], b[1]>>)
       ELSE StrV(<<b[4], b[3], b[2], b[1]>>)

\* struct.unpack_from of an integer type
IntUnpack(field, buffer, offset) ==
    LET bs == SubSeq(buffer, offset + 1, offset + field.size)
        u == UnLE(bs)
    IN IF field.size = 4 /\ bs[4] # 0 THEN Big(bs)
       ELSE IF field.minValue < 0 /\ u > field.maxValue THEN IntV(u - Pow256(field.size))
       ELSE IntV(u)

\* PrimitiveField.readFromBuffer raises on a value other than the
\* expected one; the parameter checkExpectedValue is not consulted
PrimitiveExpectedMismatch(field, value, checkExpectedValue) ==
    field.expectedValue # None /\ value # field.expectedValue[1]

\* Fixed8Field.readFromBuffer and UnknownBytesField.readFromBuffer
\* raise only when checkExpectedValue is set
GuardedExpectedMismatch(field, value, checkExpectedValue) ==
    checkExpectedValue /\ field.expectedValue # None /\ value # field.expectedValue[1]

\* Fixed8Field.readFromBuffer: floatValue = (intValue / 255.0 * 2.0) - 1
Fixed8Decode(b) == FloatV(4 * b - 510)

RECURSIVE M3StructureRead(_, _, _, _, _)
FieldReadFromBuffer(field, h, buffer, offset, checkExpectedValue) ==
    IF IsReferenceField(field) \/ field.cls = "EmbeddedStructureField"
    THEN M3StructureRead(field.structureDescription, h, buffer, offset, checkExpectedValue)
    ELSE IF ~CanUnpack(buffer, offset, field.size) THEN ReadFail(h)
    ELSE CASE field.cls = "TagField" -> ReadOk(h, TagFieldRead(buffer, offset))
           [] field.cls = "IntField" ->
                LET value == IntUnpack(field, buffer, offset)
                IN IF PrimitiveExpectedMismatch(field, value, checkExpectedValue)
                   THEN ReadFail(h) ELSE ReadOk(h, value)
           [] field.cls = "Fixed8Field" ->
                LET value == Fixed8Decode(buffer[offset + 1])
                IN IF GuardedExpectedMismatch(field, value, checkExpectedValue)
                   THEN ReadFail(h) ELSE ReadOk(h, value)
           [] field.cls = "UnknownBytesField" ->
                LET value == BytesV(SubSeq(buffer, offset + 1, offset + field.size))
                IN IF GuardedExpectedMismatch(field, value, checkExpectedValue)
                   THEN ReadFail(h) ELSE ReadOk(h, value)

\* M3Structure.readFromBuffer: the fields from index i on, at fieldOffset
RECURSIVE ReadFieldsFrom(_, _, _, _, _, _, _)
ReadFieldsFrom(desc, i, h, buffer, fieldOffset, checkExpectedValue, acc) ==
    IF i > Len(desc.fields) THEN [ok |-> TRUE, h |-> h, vals |-> acc]
    ELSE CHOOSE out \in {
             IF ~r.ok THEN [ok |-> FALSE, h |-> h, vals |-> acc]
             ELSE ReadFieldsFrom(desc, i + 1, r.h, buffer,
                                 fieldOffset + desc.fields[i].size,
                                 checkExpectedValue, Append(acc, r.v))
             : r \in {FieldReadFromBuffer(desc.fields[i], h, buffer, fieldOffset,
                                          checkExpectedValue)} } : TRUE

\* M3StructureDescription.createInstance(buffer, offset, checkExpectedValue)
M3StructureRead(desc, h, buffer, offset, checkExpectedValue) ==
    CHOOSE out \in {
        IF ~r.ok THEN ReadFail(h) ELSE ReadNew(r.h, StructObj(desc, r.vals))
        : r \in {ReadFieldsFrom(desc, 1, h, buffer, offset, checkExpectedValue, <<>>)}
        } : TRUE

RECURSIVE ReadInstancesFrom(_, _, _, _, _, _, _)
ReadInstancesFrom(desc, i, count, h, buffer, checkExpectedValue, acc) ==
    IF i >= count THEN [ok |-> TRUE, h |-> h, vals |-> acc]
    ELSE CHOOSE out \in {
             IF ~r.ok THEN [ok |-> FALSE, h |-> h, vals |-> acc]
             ELSE ReadInstancesFrom(desc, i + 1, count, r.h, buffer,
                                    checkExpectedValue, Append(acc, r.v))
             : r \in {M3StructureRead(desc, h, buffer, i * desc.size,
                                      checkExpectedValue)} } : TRUE

\* M3StructureDescription.createInstance(buffer, checkExpectedValue=...)
createInstance(desc, h, buffer, checkExpectedValue) ==
    CHOOSE out \in {
        M3StructureRead(d, h, b, 0, checkExpectedValue)
        : d \in {desc}, b \in {buffer} } : TRUE

\* M3StructureDescription.createInstances(buffer, count, checkExpectedValue)
createInstances(desc, h, buffer, count, checkExpectedValue) ==
    IF desc.structureName = N_CHAR
    THEN \* buffer[:count-1].decode("ASCII"); count = 0 gives buffer[:-1]
         CHOOSE out \in {
             IF IsAscii(s) THEN ReadNew(h, StrObj(s)) ELSE ReadFail(h)
             : s \in {IF count = 0 THEN Slice(buffer, 0, Len(buffer) - 1)
                      ELSE Slice(buffer, 0, count - 1)} } : TRUE
    ELSE IF desc.structureName = N_U8
    THEN ReadNew(h, ByteArrayObj(Slice(buffer, 0, count)))
    ELSE IF desc.isPrimitive
    THEN \* struct.unpack of buffer[offset:offset+size] needs exactly size bytes
         IF count * desc.size > Len(buffer) THEN ReadFail(h)
         ELSE ReadNew(h, ListObj([i \in 1..count |->
                          IntUnpack(desc.fields[1], buffer, (i - 1) * desc.size)]))
    ELSE CHOOSE out \in {
             IF ~r.ok THEN ReadFail(h) ELSE ReadNew(r.h, ListObj(r.vals))
             : r \in {ReadInstancesFrom(desc, 0, count, h, buffer, checkExpectedValue,
                                        <<>>)} } : TRUE

----------------------------------------------------------------------------
(* Default construction: Field.setToDefault of every class and              *)
(* M3Structure.__init__ without a buffer.  [h, v]                           *)

\* a createEmptyArray that returns [] for every history
createEmptyArrayOfLists(historyName, h) == Alloc(h, ListObj(<<>>))

\* M3StructureHistory.createEmptyArray
createEmptyArray(historyName, h) ==
    IF historyName = N_CHAR THEN [h |-> h, v |-> NoneV]
    ELSE IF historyName = N_U8 THEN Alloc(h, ByteArrayObj(<<>>))
    ELSE Alloc(h, ListObj(<<>>))

RECURSIVE M3StructureDefault(_, _)
FieldSetToDefault(field, h) ==
    CASE field.cls = "TagField" -> [h |-> h, v |-> AbsentV]
      [] IsReferenceField(field) ->
           IF field.historyOfReferencedStructures # None
           THEN createEmptyArray(field.historyOfReferencedStructures[1], h)
           ELSE Alloc(h, ListObj(<<>>))
      [] field.cls = "EmbeddedStructureField" ->
           M3StructureDefault(field.structureDescription, h)
      [] OTHER -> [h |-> h, v |-> field.defaultValue]

RECURSIVE DefaultFieldsFrom(_, _, _, _)
DefaultFieldsFrom(desc, i, h, acc) ==
    IF i > Len(desc.fields) THEN [h |-> h, vals |-> acc]
    ELSE CHOOSE out \in {
             DefaultFieldsFrom(desc, i + 1, r.h, Append(acc, r.v))
             : r \in {FieldSetToDefault(desc.fields[i], h)} } : TRUE

\* M3Structure.__init__ without a buffer
M3StructureDefault(desc, h) ==
    CHOOSE out \in {
        Alloc(r.h, StructObj(desc, r.vals))
        : r \in {DefaultFieldsFrom(desc, 1, h, <<>>)} } : TRUE

\* M3StructureDescription.createInstance()
createDefaultInstance(desc, h) ==
    CHOOSE out \in { M3StructureDefault(d, h) : d \in {desc} } : TRUE

----------------------------------------------------------------------------
(* State *)

VARIABLES
    pc,          \* the statement of loadModel / saveAndInvalidateModel reached
    err,         \* "" or the place of the exception that ended the call
    heap,        \* the Python objects, by identity
    model,       \* identity of the root model passed to save / returned by load
    header,      \* identity of the MD34 header of modelToSections / loadSections
    indexMaker,  \* IndexReferenceSourceAndSectionListMaker without its sections
    sections,    \* the list of Section objects (indexMaker.sections on save)
    stack,       \* the call stack of the introduceIndexReferences walk
    cursor,      \* loop index of the per-section loops
    file,        \* the bytes of the file on disk
    hasFile,     \* whether the file exists
    checkExpectedValue,  \* the argument of loadModel
    tampered,    \* the file was edited after it was written
    edited,      \* history: the field of the file that was edited
    resaved,     \* the model being saved is one that loadModel returned
    saved0,      \* history: deep value of the model when its save began
    held0,       \* history: the reference fields of that model and what they held
    secondSave,  \* the save under way is a second one of the same model object
    loadedFile,  \* history: the bytes of the file loadModel read
    unknownNamed, \* history: the (tag, version) pairs the unknown-section error names
    openFiles,   \* the file objects that are open: "fileObject" of saveSections,
                 \* "source" of loadSections
    call,        \* the schema reader and the field codec on their own: the input
    ret          \* and what has been computed from it so far

vars == <<pc, err, heap, model, header, indexMaker, sections, stack, cursor, file,
          hasFile, checkExpectedValue, tampered, edited, resaved, saved0, held0, secondSave,
          loadedFile, unknownNamed, openFiles, call, ret>>

\* class Section
Section(indexEntry, content, structureDescription) ==
    [indexEntry |-> indexEntry, content |-> content,
     structureDescription |-> structureDescription,
     rawBytes |-> <<>>, hasRawBytes |-> FALSE, hasContent |-> TRUE,
     timesReferenced |-> 0]

\* IndexReferenceSourceAndSectionListMaker.__init__
NewIndexMaker ==
    [objectsIdToIndexReferenceMap |-> <<>>, offset |-> 0, nextFreeIndexPosition |-> 0]

\* objectsIdToIndexReferenceMap is a sequence of <<id(object), reference>>
MapHas(m, id) == \E i \in 1..Len(m) : m[i][1] = id

\* an object graph is looked into MaxDepth objects deep: deeper than every
\* graph without a cycle that is saved or loaded here
MaxDepth == 8

\* deep value of a Python value, n objects deep
RECURSIVE DeepValueTo(_, _, _)
DeepValueTo(h, v, n) ==
    IF v.k # "obj" THEN [k |-> v.k, n |-> v.n, s |-> v.s, c |-> <<>>]
    ELSE IF n = 0 THEN [k |-> "...", n |-> 0, s |-> <<>>, c |-> <<>>]
    ELSE LET o == h[v.n]
         IN CASE o.k = "M3Structure" ->
                   [k |-> "M3Structure", n |-> o.d.structureVersion,
                    s |-> o.d.structureName,
                    c |-> [i \in 1..Len(o.f) |-> DeepValueTo(h, o.f[i], n - 1)]]
              [] o.k = "list" ->
                   [k |-> "list", n |-> 0, s |-> <<>>,
                    c |-> [i \in 1..Len(o.f) |-> DeepValueTo(h, o.f[i], n - 1)]]
              [] OTHER -> [k |-> o.k, n |-> 0, s |-> o.e, c |-> <<>>]

\* deep value of a Python value: what == compares, identities forgotten
DeepValue(h, v) == DeepValueTo(h, v, MaxDepth)

\* the reference fields of the structures reachable from structure `id`
\* through at most n lists
RECURSIVE ReferenceFieldsTo(_, _, _)
ReferenceFieldsTo(h, id, n) ==
    UNION {
        IF ~IsReferenceField(h[id].d.fields[i]) THEN {}
        ELSE {[obj |-> id, fi |-> i, list |-> h[id].f[i]]}
             \cup (IF n > 0 /\ IsObj(h, h[id].f[i], "list")
                   THEN UNION {IF IsStructure(h, h[h[id].f[i].n].f[j])
                               THEN ReferenceFieldsTo(h, h[h[id].f[i].n].f[j].n, n - 1)
                               ELSE {}
                               : j \in 1..Len(h[h[id].f[i].n].f)}
                   ELSE {})
        : i \in 1..Len(h[id].d.fields) }

\* the reference fields of the structures reachable from structure `id`,
\* each with the value it holds: what ReferenceField.introduceIndexReferences
\* will be called on, and with which getattr(owner, self.name)
ReferenceFieldsOf(h, id) == ReferenceFieldsTo(h, id, MaxDepth)

\* neither the schema reader nor a field codec is running on its own
NoCall == [fn |-> "", a |-> <<>>]

\* no field of the file was edited
NoEdit == [p |-> 0, s |-> <<>>, f |-> "", base |-> 0]

----------------------------------------------------------------------------
(* The models handed to saveAndInvalidateModel: a MODL V0 root whose        *)
(* `nodes` list holds nNodes DIV structures.                                *)

MaxNodes == 2
MaxName == 1

DataKinds == {"empty", "own", "shared"}
ExtraKinds == {"same", "copy", "equal", "empty"}
ValueKinds == {"plain", "inexact", "outOfRange", "noAttr"}

NodeVal(valueKind) == IF valueKind = "outOfRange" THEN IntV(256) ELSE IntV(0)
NodeFx(valueKind) == IF valueKind = "inexact" THEN FloatV(255) ELSE FloatV(-510)

\* a DIV V0 structure holding the byte array `data`
Node(valueKind, data) ==
    StructObj(DivV0, << NodeVal(valueKind), NodeFx(valueKind), BytesV(<<0, 0>>), data >>)

\* the objects of n DIV structures created after object `base`: with
\* dataKind "shared" they all hold the byte array 1, else each holds its own
\* (empty or <<7>>), created just before it
NodeObjects(n, dataKind, valueKind, base) ==
    IF dataKind = "shared" THEN [j \in 1..n |-> Node(valueKind, ObjV(1))]
    ELSE [k \in 1..(2 * n) |->
            IF k % 2 = 1 THEN ByteArrayObj(IF dataKind = "own" THEN <<7>> ELSE <<>>)
            ELSE Node(valueKind, ObjV(base + k - 1))]

\* the identities of those structures
NodeIds(n, dataKind, base) ==
    [j \in 1..n |-> ObjV(base + (IF dataKind = "shared" THEN j ELSE 2 * j))]

\* [h, v]: a heap and the MODL V0 structure in it.  `extra` is the list
\* `nodes` itself ("same"), another list of the same structures ("copy"), a
\* list of equal structures created separately ("equal"), or an empty list;
\* `name` is None (nameLen < 0) or a string of nameLen characters
MakeModel(nNodes, dataKind, extraKind, nameLen, valueKind) ==
    LET la == Len(NodeObjects(nNodes, dataKind, valueKind, 1)) + 2
        more == CASE extraKind = "same" -> <<>>
                  [] extraKind = "copy" -> <<ListObj(NodeIds(nNodes, dataKind, 1))>>
                  [] extraKind = "empty" -> <<ListObj(<<>>)>>
                  [] extraKind = "equal" ->
                       Append(NodeObjects(nNodes, dataKind, valueKind, la),
                              ListObj(NodeIds(nNodes, dataKind, la)))
        h == <<ByteArrayObj(<<7>>)>> \o NodeObjects(nNodes, dataKind, valueKind, 1)
             \o <<ListObj(NodeIds(nNodes, dataKind, 1))>> \o more
             \o (IF nameLen < 0 THEN <<>> ELSE <<StrObj(Repeat(65, nameLen))>>)
    IN [h |-> Append(h, StructObj(ModlV0,
                 << IF valueKind = "noAttr" THEN AbsentV ELSE IntV(1),
                    ObjV(la), ObjV(la + Len(more)),
                    IF nameLen < 0 THEN NoneV ELSE ObjV(Len(h)) >>)),
        v |-> ObjV(Len(h) + 1)]

\* [h, v]: a MODL V0 structure whose `nodes` list holds the structure
\* itself (the list is reachable from its own element), `extra` empty
CyclicModel ==
    [h |-> << ListObj(<<ObjV(3)>>), ListObj(<<>>),
              StructObj(ModlV0, << IntV(1), ObjV(1), ObjV(2), NoneV >>) >>,
     v |-> ObjV(3)]

\* the models saved: every shape of the lists with plain values and the
\* longest name, every name with an empty model, every kind of value with
\* one node, and the cyclic model
\* a model whose `nodes` list holds a structure of another history than the
\* field's refTo: a second MODL with empty references
MistypedModel ==
    [h |-> << ListObj(<<ObjV(4)>>), ListObj(<<>>), ListObj(<<>>),
              StructObj(ModlV0, << IntV(1), ObjV(2), ObjV(3), NoneV >>),
              ListObj(<<>>),
              StructObj(ModlV0, << IntV(1), ObjV(1), ObjV(5), NoneV >>) >>,
     v |-> ObjV(6)]

\* a MODL of version 2: its embedded BOX_ holds a byte array
EmbeddedModel ==
    [h |-> << ByteArrayObj(<<7>>), StructObj(BoxV0, << ObjV(1) >>),
              ListObj(<<>>), ListObj(<<>>), ListObj(<<>>),
              StructObj(ModlV2, << IntV(1), ObjV(3), ObjV(4), NoneV, ObjV(5),
                                   FloatV(-510), ObjV(2) >>) >>,
     v |-> ObjV(6)]

Models ==
    {<<n, d, e, MaxName, "plain">> : n \in 0..MaxNodes, d \in DataKinds, e \in ExtraKinds}
    \cup {<<0, "empty", "empty", l, "plain">> : l \in (-1)..MaxName}
    \cup {<<1, "own", "empty", 0, v>> : v \in ValueKinds}
    \cup {<<1, "cyclic", "empty", -1, "plain">>, <<1, "mistyped", "empty", -1, "plain">>,
          <<1, "embedded", "empty", -1, "plain">>}

Init ==
    /\ \E x \in Models :
         \E m \in {IF x[2] = "cyclic" THEN CyclicModel
                    ELSE IF x[2] = "mistyped" THEN MistypedModel
                    ELSE IF x[2] = "embedded" THEN EmbeddedModel
                    ELSE MakeModel(x[1], x[2], x[3], x[4], x[5])} :
            /\ heap = m.h
            /\ model = m.v.n
            /\ saved0 = DeepValue(m.h, m.v)
            /\ held0 = ReferenceFieldsOf(m.h, m.v.n)
    /\ secondSave = FALSE
    /\ pc = "save"
    /\ err = ""
    /\ header = 0
    /\ indexMaker = NewIndexMaker
    /\ sections = <<>>
    /\ stack = <<>>
    /\ cursor = 0
    /\ file = <<>>
    /\ hasFile = FALSE
    /\ checkExpectedValue = TRUE
    /\ tampered = FALSE
    /\ edited = NoEdit
    /\ resaved = FALSE
    /\ loadedFile = <<>>
    /\ unknownNamed = {}
    /\ openFiles = {}
    /\ call = NoCall
    /\ ret = <<>>

Raise(where) == pc' = "failed" /\ err' = where

----------------------------------------------------------------------------
(* Save: saveAndInvalidateModel = validateInstance; modelToSections;        *)
(* saveSections                                                             *)

\* M3StructureDescription.validateInstance: getattr of every field of the
\* description; the value fetched is not examined
validateInstance(desc, h, id) ==
    \A i \in 1..Len(desc.fields) :
        i <= Len(h[id].f) /\ h[id].f[i].k # "absent"

\* a saveAndInvalidateModel that opens the output file before it validates
OpenThenValidate ==
    /\ pc = "save"
    /\ file' = <<>>
    /\ hasFile' = TRUE
    /\ IF validateInstance(heap[model].d, heap, model)
       THEN pc' = "modelToSections" /\ err' = err
       ELSE Raise("validateInstance")
    /\ UNCHANGED <<heap, model, header, indexMaker, sections, stack, cursor,
                   checkExpectedValue, tampered, edited, resaved, saved0, held0, secondSave,
                   loadedFile, unknownNamed, openFiles, call, ret>>

\* saveAndInvalidateModel, line 1: model.structureDescription.validateInstance
Validate ==
    /\ pc = "save"
    /\ IF validateInstance(heap[model].d, heap, model)
       THEN pc' = "modelToSections" /\ err' = err
       ELSE Raise("validateInstance")
    /\ UNCHANGED <<heap, model, header, indexMaker, sections, stack, cursor, file,
                   hasFile, checkExpectedValue, tampered, edited, resaved, saved0, held0, secondSave,
                   loadedFile, unknownNamed,
                   openFiles, call, ret>>

\* ReferenceField.getListContentStructureDefinition: [ok, desc]; desc is
\* None or Some(description)
getListContentStructureDefinition(field, h, l) ==
    IF field.historyOfReferencedStructures = None
    THEN \* len(l) == 0 returns None; a non-empty l reaches the undefined
         \* name `owner`; a value without len() raises too
         [ok |-> HasLen(h, l) /\ PyLen(h, l) = 0, desc |-> None]
    ELSE CHOOSE out \in {
             IF history.isPrimitive
             THEN [ok |-> TRUE, desc |-> Some(getVersion(history, 0).desc)]
             ELSE IF ~IsObj(h, l, "list") THEN [ok |-> FALSE, desc |-> None]
             ELSE IF Len(h[l.n].f) = 0 THEN [ok |-> TRUE, desc |-> None]
             ELSE IF ~IsStructure(h, h[l.n].f[1]) THEN [ok |-> FALSE, desc |-> None]
             ELSE [ok |-> TRUE, desc |-> Some(h[h[l.n].f[1].n].d)]
             : history \in {structuresGet(field.historyOfReferencedStructures[1])[1]}
             } : TRUE

\* a map keyed by the value of the object instead of its id()
memoizedByValue(h, m, objectsToSave) ==
    IF objectsToSave.k = "obj"
       /\ \E i \in 1..Len(m) : DeepValue(h, ObjV(m[i][1])) = DeepValue(h, objectsToSave)
    THEN CHOOSE i \in 1..Len(m) : DeepValue(h, ObjV(m[i][1])) = DeepValue(h, objectsToSave)
    ELSE 0

\* id(objectsToSave) in self.objectsIdToIndexReferenceMap.keys(): the
\* position of that key in the map, 0 without it
memoized(h, m, objectsToSave) ==
    IF objectsToSave.k = "obj" /\ MapHas(m, objectsToSave.n)
    THEN CHOOSE i \in 1..Len(m) : m[i][1] = objectsToSave.n
    ELSE 0

\* an indexReference whose index is left at its default
NewIndexReferenceDefaultIndex(refDesc, h, repetitions, index) ==
    CHOOSE out \in {
        [h |-> SetAttr(r.h, r.v.n, "entries", IntV(repetitions)), v |-> r.v]
        : r \in {createDefaultInstance(refDesc, h)} } : TRUE

\* indexReference = referenceStructureDescription.createInstance() and the
\* assignments to its entries and index: [h, v]
NewIndexReference(refDesc, h, repetitions, index) ==
    CHOOSE out \in {
        [h |-> SetAttr(SetAttr(r.h, r.v.n, "entries", IntV(repetitions)),
                       r.v.n, "index", IntV(index)),
         v |-> r.v]
        : r \in {createDefaultInstance(refDesc, h)} } : TRUE

\* indexEntry = self.MD34IndexEntry.createInstance() and the assignments to
\* its four fields: [h, v]
NewIndexEntry(h, sd, offset, repetitions) ==
    CHOOSE out \in {
        [h |-> SetAttr(SetAttr(SetAttr(SetAttr(e.h,
                   e.v.n, "tag", StrV(sd.structureName)),
                   e.v.n, "offset", IntV(offset)),
                   e.v.n, "repetitions", IntV(repetitions)),
                   e.v.n, "version", IntV(sd.structureVersion)),
         v |-> e.v]
        : e \in {createDefaultInstance(MD34IndexEntryV0, h)} } : TRUE

\* that block with self.nextFreeIndexPosition advanced by two
NewSectionSkippingIndex(h, im, secs, objectsToSave, sd, repetitions, ref) ==
    CHOOSE out \in {
        [ok |-> totalBytes.ok, h |-> e.h,
         im |-> [objectsIdToIndexReferenceMap |->
                     IF objectsToSave.k = "obj"
                     THEN Append(im.objectsIdToIndexReferenceMap, <<objectsToSave.n, ref>>)
                     ELSE im.objectsIdToIndexReferenceMap,
                 offset |-> im.offset + increaseToValidSectionSize(totalBytes.n),
                 nextFreeIndexPosition |-> im.nextFreeIndexPosition + 2],
         secs |-> Append(secs, Section(e.v.n, objectsToSave, sd)),
         ref |-> ref]
        : e \in {NewIndexEntry(h, sd, im.offset, repetitions)},
          totalBytes \in {countBytesRequiredForInstances(sd, h, objectsToSave)}
        } : TRUE

\* that block with self.offset advanced by the bytes of the content, not
\* increased to a valid section size
NewSectionUnpaddedOffset(h, im, secs, objectsToSave, sd, repetitions, ref) ==
    CHOOSE out \in {
        [ok |-> totalBytes.ok, h |-> e.h,
         im |-> [objectsIdToIndexReferenceMap |->
                     IF objectsToSave.k = "obj"
                     THEN Append(im.objectsIdToIndexReferenceMap, <<objectsToSave.n, ref>>)
                     ELSE im.objectsIdToIndexReferenceMap,
                 offset |-> im.offset + totalBytes.n,
                 nextFreeIndexPosition |-> im.nextFreeIndexPosition + 1],
         secs |-> Append(secs, Section(e.v.n, objectsToSave, sd)),
         ref |-> ref]
        : e \in {NewIndexEntry(h, sd, im.offset, repetitions)},
          totalBytes \in {countBytesRequiredForInstances(sd, h, objectsToSave)}
        } : TRUE

\* the block `if (repetitions > 0):` of getIndexReferenceTo
NewSection(h, im, secs, objectsToSave, sd, repetitions, ref) ==
    CHOOSE out \in {
        [ok |-> totalBytes.ok, h |-> e.h,
         im |-> [objectsIdToIndexReferenceMap |->
                     IF objectsToSave.k = "obj"
                     THEN Append(im.objectsIdToIndexReferenceMap, <<objectsToSave.n, ref>>)
                     ELSE im.objectsIdToIndexReferenceMap,
                 offset |-> im.offset + increaseToValidSectionSize(totalBytes.n),
                 nextFreeIndexPosition |-> im.nextFreeIndexPosition + 1],
         secs |-> Append(secs, Section(e.v.n, objectsToSave, sd)),
         ref |-> ref]
        : e \in {NewIndexEntry(h, sd, im.offset, repetitions)},
          totalBytes \in {countBytesRequiredForInstances(sd, h, objectsToSave)}
        } : TRUE

\* IndexReferenceSourceAndSectionListMaker.getIndexReferenceTo:
\* [ok, h, im, secs, ref]
getIndexReferenceTo(h, im, secs, objectsToSave, refDesc, structureDescription) ==
    IF memoized(h, im.objectsIdToIndexReferenceMap, objectsToSave) # 0
    THEN [ok |-> TRUE, h |-> h, im |-> im, secs |-> secs,
          ref |-> im.objectsIdToIndexReferenceMap[
                      memoized(h, im.objectsIdToIndexReferenceMap, objectsToSave)][2]]
    ELSE CHOOSE out \in {
             IF ~c.ok THEN [ok |-> FALSE, h |-> h, im |-> im, secs |-> secs, ref |-> NoneV]
             ELSE CHOOSE made \in {
                      IF c.n > 0
                      THEN NewSection(r.h, im, secs, objectsToSave, structureDescription[1],
                                      c.n, r.v)
                      ELSE [ok |-> TRUE, h |-> r.h, im |-> im, secs |-> secs, ref |-> r.v]
                      : r \in {NewIndexReference(refDesc, h, c.n,
                                                 im.nextFreeIndexPosition)} } : TRUE
             : c \in {IF structureDescription = None THEN [ok |-> TRUE, n |-> 0]
                      ELSE countInstances(structureDescription[1], h, objectsToSave)}
             } : TRUE

\* self.historyOfReferencedStructures != None and
\* self.historyOfReferencedStructures.isPrimitive
isPrimitiveHistory(field) ==
    /\ field.historyOfReferencedStructures # None
    /\ field.historyOfReferencedStructures[1] \in structureNamesOfPrimitiveTypes

\* a frame of the walk: M3Structure.introduceIndexReferences of `obj` at
\* field number fi; in mode "elems", ReferenceField.introduceIndexReferences
\* of that field is iterating over the elements of `list`, at element ei,
\* and will store `ref` into the field afterwards
Frame(obj, fi) ==
    [obj |-> obj, fi |-> fi, mode |-> "fields", list |-> NoneV, ei |-> 0, ref |-> NoneV]

\* header = MD34V11.createInstance(); header.tag = "MD34";
\* header.model = [model]; and the list [header]: [h, hd, hl] with hd the
\* header and hl the list holding it
NewHeader(h, m) ==
    CHOOSE out \in {
        [h |-> Append(Append(SetAttr(SetAttr(hd.h, hd.v.n, "tag", StrV(N_MD34)),
                                     hd.v.n, "model", ObjV(Len(hd.h) + 1)),
                             ListObj(<<ObjV(m)>>)),
                      ListObj(<<hd.v>>)),
         hd |-> hd.v, hl |-> ObjV(Len(hd.h) + 2)]
        : hd \in {createDefaultInstance(MD34V11, h)} } : TRUE

\* modelToSections up to the call of header.introduceIndexReferences
ModelToSectionsBegin ==
    /\ pc = "modelToSections"
    /\ \E n \in {NewHeader(heap, model)} :
         \E ref \in {ReferenceV0}, md34 \in {MD34V11} :
         \E g \in {getIndexReferenceTo(n.h, NewIndexMaker, <<>>, n.hl, ref, Some(md34))} :
            /\ header' = n.hd.n
            /\ heap' = g.h
            /\ indexMaker' = g.im
            /\ sections' = g.secs
            /\ stack' = <<Frame(n.hd.n, 1)>>
            /\ pc' = "walk"
    /\ UNCHANGED <<err, model, cursor, file, hasFile, checkExpectedValue, tampered, edited,
                   resaved, saved0, held0, secondSave, loadedFile, unknownNamed,
                   openFiles, call, ret>>

\* the interpreter's recursion limit, counted in nested calls of
\* M3Structure.introduceIndexReferences: the call that would nest deeper
\* raises RecursionError
RecursionLimit == 6

Top == stack[Len(stack)]
Pop == SubSeq(stack, 1, Len(stack) - 1)
ReplaceTop(fr) == [stack EXCEPT ![Len(stack)] = fr]

WalkUnchanged ==
    UNCHANGED <<model, header, cursor, file, hasFile, checkExpectedValue, tampered, edited,
                resaved, saved0, held0, secondSave, loadedFile, unknownNamed,
                   openFiles, call, ret>>

\* M3Structure.introduceIndexReferences: the loop over the fields is over
WalkReturn ==
    /\ pc = "walk" /\ stack # <<>>
    /\ Top.mode = "fields" /\ Top.fi > Len(heap[Top.obj].d.fields)
    /\ stack' = Pop
    /\ UNCHANGED <<pc, err, heap, indexMaker, sections>>
    /\ WalkUnchanged

\* Field.introduceIndexReferences (pass) and
\* EmbeddedStructureField.introduceIndexReferences
WalkPlainField ==
    /\ pc = "walk" /\ stack # <<>>
    /\ Top.mode = "fields" /\ Top.fi <= Len(heap[Top.obj].d.fields)
    /\ LET field == heap[Top.obj].d.fields[Top.fi]
           v == heap[Top.obj].f[Top.fi]
       IN /\ ~IsReferenceField(field)
          /\ IF field.cls = "EmbeddedStructureField"
             THEN IF ~IsStructure(heap, v)
                  THEN Raise("introduceIndexReferences") /\ UNCHANGED stack
                  ELSE IF Len(stack) >= RecursionLimit
                  THEN Raise("RecursionError") /\ UNCHANGED stack
                  ELSE /\ stack' = Append(ReplaceTop([Top EXCEPT !.fi = @ + 1]),
                                          Frame(v.n, 1))
                       /\ UNCHANGED <<pc, err>>
             ELSE /\ stack' = ReplaceTop([Top EXCEPT !.fi = @ + 1])
                  /\ UNCHANGED <<pc, err>>
    /\ UNCHANGED <<heap, indexMaker, sections>>
    /\ WalkUnchanged

\* setattr(owner, self.name, indexReference) of introduceIndexReferences
setIndexReference(h, owner, fi, indexReference) ==
    [h EXCEPT ![owner].f[fi] = indexReference]

\* ReferenceField.introduceIndexReferences up to its loop over the elements
WalkReferenceField ==
    /\ pc = "walk" /\ stack # <<>>
    /\ Top.mode = "fields" /\ Top.fi <= Len(heap[Top.obj].d.fields)
    /\ IsReferenceField(heap[Top.obj].d.fields[Top.fi])
    /\ \E field \in {heap[Top.obj].d.fields[Top.fi]},
          referencedObjects \in {heap[Top.obj].f[Top.fi]} :
         \E sd \in {getListContentStructureDefinition(field, heap, referencedObjects)} :
         \E g \in {IF sd.ok
                    THEN getIndexReferenceTo(heap, indexMaker, sections, referencedObjects,
                                             field.structureDescription, sd.desc)
                    ELSE [ok |-> FALSE, h |-> heap, im |-> indexMaker, secs |-> sections,
                          ref |-> NoneV]} :
            IF ~g.ok
            THEN /\ Raise("introduceIndexReferences")
                 /\ UNCHANGED <<heap, indexMaker, sections, stack>>
            ELSE /\ indexMaker' = g.im
                 /\ sections' = g.secs
                 /\ UNCHANGED <<pc, err>>
                 /\ IF ~isPrimitiveHistory(field) /\ PyLen(g.h, referencedObjects) > 0
                    THEN /\ heap' = g.h
                         /\ stack' = ReplaceTop([Top EXCEPT !.mode = "elems",
                                                   !.list = referencedObjects,
                                                   !.ei = 1, !.ref = g.ref])
                    ELSE /\ heap' = setIndexReference(g.h, Top.obj, Top.fi, g.ref)
                         /\ stack' = ReplaceTop([Top EXCEPT !.fi = @ + 1])
    /\ WalkUnchanged

\* the loop `for referencedObject in referencedObjects` and the final
\* setattr(owner, self.name, indexReference)
WalkElement ==
    /\ pc = "walk" /\ stack # <<>>
    /\ Top.mode = "elems"
    /\ LET elems == heap[Top.list.n].f
       IN IF Top.ei > Len(elems)
          THEN /\ heap' = setIndexReference(heap, Top.obj, Top.fi, Top.ref)
               /\ stack' = ReplaceTop(Frame(Top.obj, Top.fi + 1))
               /\ UNCHANGED <<pc, err>>
          ELSE IF ~IsStructure(heap, elems[Top.ei])
          THEN Raise("introduceIndexReferences") /\ UNCHANGED <<heap, stack>>
          ELSE IF Len(stack) >= RecursionLimit
          THEN Raise("RecursionError") /\ UNCHANGED <<heap, stack>>
          ELSE /\ stack' = Append(ReplaceTop([Top EXCEPT !.ei = @ + 1]),
                                  Frame(elems[Top.ei].n, 1))
               /\ UNCHANGED <<pc, err, heap>>
    /\ UNCHANGED <<indexMaker, sections>>
    /\ WalkUnchanged

\* modelToSections after the walk: header.indexOffset, header.indexSize
ModelToSectionsEnd ==
    /\ pc = "walk" /\ stack = <<>>
    /\ heap' = SetAttr(SetAttr(heap, header, "indexOffset", IntV(indexMaker.offset)),
                       header, "indexSize", IntV(Len(sections)))
    /\ cursor' = 1
    /\ pc' = "determineFieldRawBytes"
    /\ UNCHANGED <<err, model, header, indexMaker, sections, stack, file, hasFile,
                   checkExpectedValue, tampered, edited, resaved, saved0, held0, secondSave, loadedFile,
                   unknownNamed,
                   openFiles, call, ret>>

\* the padding loop of Section.determineFieldRawBytes
paddedNoFill(minRawBytes, sectionSize) ==
    [i \in 1..sectionSize |-> IF i <= Len(minRawBytes) THEN minRawBytes[i] ELSE 0]

padded(minRawBytes, sectionSize) ==
    [i \in 1..sectionSize |-> IF i <= Len(minRawBytes) THEN minRawBytes[i] ELSE FillByte]

\* Section.determineFieldRawBytes: [ok, rawBytes]
determineFieldRawBytes(h, section) ==
    CHOOSE out \in {
        IF ~minRawBytes.ok \/ ~required.ok \/ Len(minRawBytes.b) # required.n
        THEN WriteFail
        ELSE IF Len(minRawBytes.b) = increaseToValidSectionSize(Len(minRawBytes.b))
        THEN WriteOk(minRawBytes.b)
        ELSE WriteOk(padded(minRawBytes.b, increaseToValidSectionSize(Len(minRawBytes.b))))
        : minRawBytes \in {instancesToBytes(section.structureDescription, h,
                                            section.content)},
          required \in {countBytesRequiredForInstances(section.structureDescription, h,
                                                       section.content)} } : TRUE

\* one iteration of the loop `for section in sections:
\* section.determineFieldRawBytes()` of modelToSections
DetermineFieldRawBytes ==
    /\ pc = "determineFieldRawBytes"
    /\ cursor <= Len(sections)
    /\ \E r \in {determineFieldRawBytes(heap, sections[cursor])} :
         IF r.ok
         THEN /\ sections' = [sections EXCEPT ![cursor].rawBytes = r.b,
                                              ![cursor].hasRawBytes = TRUE]
              /\ cursor' = cursor + 1
              /\ UNCHANGED <<pc, err>>
         ELSE /\ Raise("determineFieldRawBytes")
              /\ UNCHANGED <<sections, cursor>>
    /\ UNCHANGED <<heap, model, header, indexMaker, stack, file, hasFile,
                   checkExpectedValue, tampered, edited, resaved, saved0, held0, secondSave, loadedFile,
                   unknownNamed,
                   openFiles, call, ret>>

\* modelToSections returns
ModelToSectionsReturn ==
    /\ pc = "determineFieldRawBytes"
    /\ cursor > Len(sections)
    /\ pc' = "saveSections"
    /\ UNCHANGED <<err, heap, model, header, indexMaker, sections, stack, cursor, file,
                   hasFile, checkExpectedValue, tampered, edited, resaved, saved0, held0, secondSave, loadedFile,
                   unknownNamed,
                   openFiles, call, ret>>

\* first loop of saveSections: [ok, out] with out the bytes written
RECURSIVE WriteSectionsFrom(_, _, _, _)
WriteSectionsFrom(h, secs, i, out) ==
    IF i > Len(secs) THEN [ok |-> TRUE, out |-> out]
    ELSE LET offset == GetAttr(h, secs[i].indexEntry, "offset")
         IN IF offset # IntV(Len(out)) THEN [ok |-> FALSE, out |-> out]
            ELSE WriteSectionsFrom(h, secs, i + 1, out \o secs[i].rawBytes)

\* second loop of saveSections: the index table
RECURSIVE WriteIndexFrom(_, _, _, _)
WriteIndexFrom(h, secs, i, out) ==
    IF i > Len(secs) THEN [ok |-> TRUE, out |-> out]
    ELSE CHOOSE written \in {
             IF ~w.ok THEN [ok |-> FALSE, out |-> out]
             ELSE WriteIndexFrom(h, secs, i + 1, out \o w.b)
             : w \in {M3StructureWriteToBuffer(h, secs[i].indexEntry)} } : TRUE

\* saveSections(sections, filename): [ok, out]
saveSections(h, secs) ==
    CHOOSE out \in {
        IF ~body.ok THEN body
        ELSE IF Len(secs) = 0 THEN [ok |-> FALSE, out |-> body.out]
        ELSE IF IntV(Len(body.out)) # GetAttr(h, h[secs[1].content.n].f[1].n, "indexOffset")
        THEN [ok |-> FALSE, out |-> body.out]
        ELSE WriteIndexFrom(h, secs, 1, body.out)
        : body \in {WriteSectionsFrom(h, secs, 1, <<>>)} } : TRUE

\* fileObject = open(filename, "w+b"): the file exists and is empty
SaveSectionsOpen ==
    /\ pc = "saveSections"
    /\ file' = <<>>
    /\ hasFile' = TRUE
    /\ openFiles' = openFiles \cup {"fileObject"}
    /\ pc' = "saveSections.try"
    /\ UNCHANGED <<err, heap, model, header, indexMaker, sections, stack, cursor,
                   checkExpectedValue, tampered, edited, resaved, saved0, held0, secondSave, loadedFile,
                   unknownNamed, call, ret>>

\* the body of the `try:` of saveSections; an exception is pending in err
\* while the `finally:` runs
SaveSections ==
    /\ pc = "saveSections.try"
    /\ \E r \in {saveSections(heap, sections)} :
         \/ /\ file' = r.out
            /\ err' = IF r.ok THEN err ELSE "saveSections"
         \/ \* fileObject.write raises (the device is full): the first
            \* write, or the one after the first section
            /\ \E n \in {0, Len(sections[1].rawBytes)} : file' = SubSeq(r.out, 1, n)
            /\ err' = "OSError"
    /\ pc' = "saveSections.finally"
    /\ UNCHANGED <<heap, model, header, indexMaker, sections, stack, cursor, hasFile,
                   checkExpectedValue, tampered, edited, resaved, saved0, held0, secondSave, loadedFile,
                   unknownNamed,
                   openFiles, call, ret>>

\* a close() that is the last statement of the `try:` body instead
closeAtEndOfTry(open, fileObject, raised) ==
    IF raised THEN open ELSE open \ {fileObject}

\* `finally: fileObject.close()`: runs whether or not the body raised
finallyClose(open, fileObject, raised) == open \ {fileObject}

\* the `finally:` of saveSections, then the call returns or raises
SaveSectionsFinally ==
    /\ pc = "saveSections.finally"
    /\ openFiles' = finallyClose(openFiles, "fileObject", err # "")
    /\ pc' = IF err = "" THEN "saved" ELSE "failed"
    /\ UNCHANGED <<err, heap, model, header, indexMaker, sections, stack, cursor, file,
                   hasFile, checkExpectedValue, tampered, edited, resaved, saved0, held0, secondSave,
                   loadedFile, unknownNamed, call, ret>>

----------------------------------------------------------------------------
(* Load: loadModel = loadSections; resolveReferencesOfSections;             *)
(* checkThatAllSectionsGotReferenced; the root model                        *)

\* source.seek(pos); source.read(n)
FileRead(f, pos, n) == Slice(f, pos, pos + n)

\* the loop reading header.indexSize index entries: [ok, h, secs]
RECURSIVE ReadIndexEntriesFrom(_, _, _, _, _, _, _)
ReadIndexEntriesFrom(f, h, i, indexSize, indexOffset, check, secs) ==
    IF i >= indexSize THEN [ok |-> TRUE, h |-> h, secs |-> secs]
    ELSE CHOOSE out \in {
             IF ~r.ok THEN [ok |-> FALSE, h |-> h, secs |-> secs]
             ELSE ReadIndexEntriesFrom(f, r.h, i + 1, indexSize, indexOffset, check,
                      Append(secs, [Section(r.v.n, NoneV, NoDesc) EXCEPT
                                      !.hasContent = FALSE]))
             : r \in {createInstance(MD34IndexEntryV0, h,
                          FileRead(f, indexOffset + i * MD34IndexEntryV0.size,
                                   MD34IndexEntryV0.size),
                          check)} } : TRUE

\* list.sort() by insertion
RECURSIVE InsertSorted(_, _)
InsertSorted(q, x) ==
    IF q = <<>> THEN <<x>>
    ELSE IF ~IntLess(Head(q), x) THEN <<x>> \o q
    ELSE <<Head(q)>> \o InsertSorted(Tail(q), x)

RECURSIVE sorted(_)
sorted(q) == IF q = <<>> THEN <<>> ELSE InsertSorted(sorted(Tail(q)), Head(q))

\* the loop `for offset in offsets[1:]` filling offsetToSizeMap, a later
\* assignment to the same key replacing the earlier one
RECURSIVE OffsetToSizeFrom(_, _, _)
OffsetToSizeFrom(offsets, j, m) ==
    IF j > Len(offsets) THEN m
    ELSE OffsetToSizeFrom(offsets, j + 1,
             (offsets[j - 1] :> IntMinus(offsets[j], offsets[j - 1])) @@ m)

offsetToSizeMap(h, secs, indexOffset) ==
    CHOOSE out \in {
        OffsetToSizeFrom(offsets, 2, <<>>)
        : offsets \in {sorted([i \in 1..Len(secs) |->
                                 GetAttr(h, secs[i].indexEntry, "offset")]
                              \o <<indexOffset>>)} } : TRUE

\* the loop `for i in range(1,16)` counting trailing 0xaa bytes: [ok, n];
\* rawBytes[len(rawBytes)-i] raises IndexError below -len(rawBytes)
RECURSIVE GuessUnusedFrom(_, _, _)
GuessUnusedFrom(rawBytes, i, n) ==
    IF i > 15 THEN [ok |-> TRUE, n |-> n]
    ELSE LET idx == Len(rawBytes) - i
         IN IF idx < 0 - Len(rawBytes) THEN [ok |-> FALSE, n |-> n]
            ELSE LET b == rawBytes[(IF idx < 0 THEN idx + Len(rawBytes) ELSE idx) + 1]
                 IN IF b = FillByte THEN GuessUnusedFrom(rawBytes, i + 1, n + 1)
                    ELSE [ok |-> TRUE, n |-> n]

\* the lookup of an index entry's (tag, version) in the schema: None or
\* Some(description)
lookupDescription(tag, version) ==
    CHOOSE out \in {
        IF structureHistory = None THEN None
        ELSE CHOOSE found \in {
                 IF g.r = "ok" THEN Some(g.desc) ELSE None
                 : g \in {getVersion(structureHistory[1], version)} } : TRUE
        : structureHistory \in {structuresGet(tag)} } : TRUE

\* one section of the loop `for section in sections` of loadSections, with
\* its bytes read and its description looked up: [err, h, sec, unknown]
LoadSection(h, sec, indexEntry, rawBytes, structureDescription, check) ==
    IF structureDescription # None
    THEN CHOOSE out \in {
             IF ~c.ok
             THEN [err |-> "determineContentField", h |-> h, sec |-> sec, unknown |-> {}]
             ELSE [err |-> "", h |-> c.h,
                   sec |-> [sec EXCEPT !.rawBytes = rawBytes, !.hasRawBytes = TRUE,
                                       !.structureDescription = structureDescription[1],
                                       !.content = c.v, !.hasContent = TRUE],
                   unknown |-> {}]
             : c \in {createInstances(structureDescription[1], h, rawBytes,
                                      GetAttr(h, indexEntry, "repetitions").n, check)}
             } : TRUE
    ELSE IF ~GuessUnusedFrom(rawBytes, 1, 0).ok
    THEN [err |-> "IndexError", h |-> h, sec |-> sec, unknown |-> {}]
    ELSE IF GetAttr(h, indexEntry, "repetitions").n = 0
    THEN [err |-> "ZeroDivisionError", h |-> h, sec |-> sec, unknown |-> {}]
    ELSE [err |-> "", h |-> h,
          sec |-> [sec EXCEPT !.rawBytes = rawBytes, !.hasRawBytes = TRUE],
          unknown |-> {<<GetAttr(h, indexEntry, "tag").s,
                         GetAttr(h, indexEntry, "version")>>}]

\* the loop `for section in sections` of loadSections from section i on:
\* [err, h, secs, unknown]; err = "" when the loop ran to its end
RECURSIVE LoadSectionsFrom(_, _, _, _, _, _, _)
LoadSectionsFrom(f, h, secs, i, sizes, check, unknownSections) ==
    IF i > Len(secs)
    THEN [err |-> "", h |-> h, secs |-> secs, unknown |-> unknownSections]
    ELSE IF GetAttr(h, secs[i].indexEntry, "offset") \notin DOMAIN sizes
    THEN [err |-> "KeyError", h |-> h, secs |-> secs, unknown |-> unknownSections]
    ELSE CHOOSE out \in {
             IF s.err # ""
             THEN [err |-> s.err, h |-> h, secs |-> secs, unknown |-> unknownSections]
             ELSE LoadSectionsFrom(f, s.h, [secs EXCEPT ![i] = s.sec], i + 1, sizes, check,
                                   unknownSections \cup s.unknown)
             : s \in {CHOOSE one \in {
                          LoadSection(h, secs[i], secs[i].indexEntry, rawBytes,
                                      structureDescription, check)
                          : rawBytes \in
                                {FileRead(f, GetAttr(h, secs[i].indexEntry, "offset").n,
                                          sizes[GetAttr(h, secs[i].indexEntry, "offset")])},
                            structureDescription \in
                                {lookupDescription(
                                     GetAttr(h, secs[i].indexEntry, "tag").s,
                                     GetAttr(h, secs[i].indexEntry, "version").n)}
                          } : TRUE} } : TRUE

\* loadSections after the header was read: [err, h, secs, unknown, hd]
LoadIndexAndSections(f, hr, check) ==
    CHOOSE out \in {
        IF ~es.ok
        THEN [err |-> "indexEntry", h |-> <<>>, secs |-> <<>>, unknown |-> {}, hd |-> 0]
        ELSE CHOOSE loaded \in {
                 IF ls.err # ""
                 THEN [err |-> ls.err, h |-> <<>>, secs |-> <<>>, unknown |-> {}, hd |-> 0]
                 ELSE IF ls.unknown # {}
                 THEN [err |-> "unknownSections", h |-> <<>>, secs |-> <<>>,
                       unknown |-> ls.unknown, hd |-> 0]
                 ELSE [err |-> "", h |-> ls.h, secs |-> ls.secs, unknown |-> {},
                       hd |-> hr.v.n]
                 : ls \in {LoadSectionsFrom(f, es.h, es.secs, 1,
                               offsetToSizeMap(es.h, es.secs,
                                               GetAttr(hr.h, hr.v.n, "indexOffset")),
                               check, {})} } : TRUE
        : es \in {ReadIndexEntriesFrom(f, hr.h, 0, GetAttr(hr.h, hr.v.n, "indexSize").n,
                                       GetAttr(hr.h, hr.v.n, "indexOffset").n, check, <<>>)}
        } : TRUE

\* loadSections(filename, checkExpectedValue): [err, h, secs, unknown, hd]
loadSections(f, check) ==
    CHOOSE out \in {
        IF ~hr.ok
        THEN [err |-> "header", h |-> <<>>, secs |-> <<>>, unknown |-> {}, hd |-> 0]
        ELSE LoadIndexAndSections(f, hr, check)
        : hr \in {createInstance(MD34V11, <<>>, FileRead(f, 0, MD34V11.size), check)}
        } : TRUE

\* loadModel(filename, checkExpectedValue) calls loadSections:
\* source = open(filename, "rb")
LoadSectionsOpen ==
    /\ pc = "saved" /\ ~resaved
    /\ hasFile
    /\ checkExpectedValue' \in BOOLEAN
    /\ openFiles' = openFiles \cup {"source"}
    /\ loadedFile' = file
    /\ pc' = "loadSections.try"
    /\ UNCHANGED <<err, heap, model, header, indexMaker, sections, stack, cursor, file,
                   hasFile, tampered, edited, resaved, saved0, held0, secondSave, unknownNamed,
                   call, ret>>

\* the body of the `try:` of loadSections; an exception is pending in err
\* while the `finally:` runs
LoadSections ==
    /\ pc = "loadSections.try"
    /\ \E r \in {loadSections(file, checkExpectedValue)} :
         /\ unknownNamed' = r.unknown
         /\ heap' = r.h
         /\ sections' = r.secs
         /\ header' = r.hd
         /\ err' = r.err
    /\ pc' = "loadSections.finally"
    /\ cursor' = 1
    /\ model' = 0
    /\ indexMaker' = NewIndexMaker
    /\ UNCHANGED <<stack, file, hasFile, checkExpectedValue, tampered, edited, resaved,
                   saved0, held0, secondSave, loadedFile, openFiles, call, ret>>

\* the `finally:` of loadSections, then the call returns the sections to
\* loadModel or raises
LoadSectionsFinally ==
    /\ pc = "loadSections.finally"
    /\ openFiles' = finallyClose(openFiles, "source", err # "")
    /\ pc' = IF err = "" THEN "resolveReferencesOfSections" ELSE "failed"
    /\ UNCHANGED <<err, heap, model, header, indexMaker, sections, stack, cursor, file,
                   hasFile, checkExpectedValue, tampered, edited, resaved, saved0, held0, secondSave,
                   loadedFile, unknownNamed, call, ret>>

\* resolveIndexReferences without the comparison of the section's tag
resolveIndexReferencesAnyTag(field, h, secs, owner, fi) ==
    LET ref == h[owner].f[fi]
        entries == GetAttr(h, ref.n, "entries")
        index == GetAttr(h, ref.n, "index").n
        hist == field.historyOfReferencedStructures
    IN IF entries = IntV(0)
       THEN CHOOSE out \in {
                [ok |-> TRUE, h |-> [e.h EXCEPT ![owner].f[fi] = e.v], secs |-> secs]
                : e \in {IF hist = None THEN Alloc(h, ListObj(<<>>))
                         ELSE createEmptyArray(hist[1], h)} } : TRUE
       ELSE IF index >= Len(secs) THEN [ok |-> FALSE, h |-> h, secs |-> secs]
       ELSE CHOOSE out \in {
                IF IntLess(GetAttr(h, secs[index + 1].indexEntry, "repetitions"), entries)
                THEN [ok |-> FALSE, h |-> h, secs |-> secs1]
                ELSE IF hist = None THEN [ok |-> FALSE, h |-> h, secs |-> secs1]
                ELSE [ok |-> TRUE,
                      h |-> [h EXCEPT ![owner].f[fi] = secs[index + 1].content],
                      secs |-> secs1]
                : secs1 \in {[secs EXCEPT ![index + 1].timesReferenced = @ + 1]} } : TRUE

\* a resolveIndexReferences that looks the section up before it tests
\* ref.entries == 0
resolveIndexReferencesLookingUp(field, h, secs, owner, fi) ==
    LET ref == h[owner].f[fi]
        entries == GetAttr(h, ref.n, "entries")
        index == GetAttr(h, ref.n, "index").n
        hist == field.historyOfReferencedStructures
    IN IF index >= Len(secs) THEN [ok |-> FALSE, h |-> h, secs |-> secs]
       ELSE CHOOSE out \in {
                IF entries = IntV(0)
                THEN CHOOSE made \in {
                         [ok |-> TRUE, h |-> [e.h EXCEPT ![owner].f[fi] = e.v],
                          secs |-> secs1]
                         : e \in {IF hist = None THEN Alloc(h, ListObj(<<>>))
                                  ELSE createEmptyArray(hist[1], h)} } : TRUE
                ELSE IF IntLess(GetAttr(h, secs[index + 1].indexEntry, "repetitions"),
                                entries)
                THEN [ok |-> FALSE, h |-> h, secs |-> secs1]
                ELSE IF hist = None THEN [ok |-> FALSE, h |-> h, secs |-> secs1]
                ELSE IF GetAttr(h, secs[index + 1].indexEntry, "tag").s # hist[1]
                THEN [ok |-> FALSE, h |-> h, secs |-> secs1]
                ELSE [ok |-> TRUE,
                      h |-> [h EXCEPT ![owner].f[fi] = secs[index + 1].content],
                      secs |-> secs1]
                : secs1 \in {[secs EXCEPT ![index + 1].timesReferenced = @ + 1]} } : TRUE

\* ReferenceField.resolveIndexReferences: [ok, h, secs]
resolveIndexReferences(field, h, secs, owner, fi) ==
    LET ref == h[owner].f[fi]
        entries == GetAttr(h, ref.n, "entries")
        index == GetAttr(h, ref.n, "index").n
        hist == field.historyOfReferencedStructures
    IN IF entries = IntV(0)
       THEN CHOOSE out \in {
                [ok |-> TRUE, h |-> [e.h EXCEPT ![owner].f[fi] = e.v], secs |-> secs]
                : e \in {IF hist = None THEN Alloc(h, ListObj(<<>>))
                         ELSE createEmptyArray(hist[1], h)} } : TRUE
       ELSE IF index >= Len(secs) THEN [ok |-> FALSE, h |-> h, secs |-> secs]
       ELSE CHOOSE out \in {
                IF IntLess(GetAttr(h, secs[index + 1].indexEntry, "repetitions"), entries)
                THEN [ok |-> FALSE, h |-> h, secs |-> secs1]
                ELSE IF hist = None THEN [ok |-> FALSE, h |-> h, secs |-> secs1]
                ELSE IF GetAttr(h, secs[index + 1].indexEntry, "tag").s # hist[1]
                THEN [ok |-> FALSE, h |-> h, secs |-> secs1]
                ELSE [ok |-> TRUE,
                      h |-> [h EXCEPT ![owner].f[fi] = secs[index + 1].content],
                      secs |-> secs1]
                : secs1 \in {[secs EXCEPT ![index + 1].timesReferenced = @ + 1]} } : TRUE

\* M3Structure.resolveReferences: the fields of `owner` from number fi on
RECURSIVE ResolveFieldsFrom(_, _, _, _)
ResolveFieldsFrom(h, secs, owner, fi) ==
    IF fi > Len(h[owner].d.fields) THEN [ok |-> TRUE, h |-> h, secs |-> secs]
    ELSE CHOOSE out \in {
             IF ~r.ok THEN r ELSE ResolveFieldsFrom(r.h, r.secs, owner, fi + 1)
             : r \in {IF IsReferenceField(h[owner].d.fields[fi])
                      THEN resolveIndexReferences(h[owner].d.fields[fi], h, secs, owner, fi)
                      ELSE IF h[owner].d.fields[fi].cls = "EmbeddedStructureField"
                      THEN ResolveFieldsFrom(h, secs, h[owner].f[fi].n, 1)
                      ELSE [ok |-> TRUE, h |-> h, secs |-> secs]} } : TRUE

\* a Section.resolveReferences that resolves the first object of the content only
ResolveObjectsFromFirstOnly(h, secs, content, i) ==
    IF i > Len(h[content.n].f) \/ i > 1 THEN [ok |-> TRUE, h |-> h, secs |-> secs]
    ELSE ResolveFieldsFrom(h, secs, h[content.n].f[i].n, 1)

\* Section.resolveReferences: the objects of the content from number i on
RECURSIVE ResolveObjectsFrom(_, _, _, _)
ResolveObjectsFrom(h, secs, content, i) ==
    IF i > Len(h[content.n].f) THEN [ok |-> TRUE, h |-> h, secs |-> secs]
    ELSE CHOOSE out \in {
             IF ~r.ok THEN r ELSE ResolveObjectsFrom(r.h, r.secs, content, i + 1)
             : r \in {ResolveFieldsFrom(h, secs, h[content.n].f[i].n, 1)} } : TRUE

\* one iteration of resolveReferencesOfSections
ResolveReferences ==
    /\ pc = "resolveReferencesOfSections"
    /\ cursor <= Len(sections)
    /\ \E r \in {IF sections[cursor].structureDescription.isPrimitive
                  THEN [ok |-> TRUE, h |-> heap, secs |-> sections]
                  ELSE ResolveObjectsFrom(heap, sections, sections[cursor].content, 1)} :
         /\ heap' = r.h
         /\ sections' = r.secs
         /\ IF r.ok THEN UNCHANGED <<pc, err>>
            ELSE Raise("resolveIndexReferences")
    /\ cursor' = cursor + 1
    /\ UNCHANGED <<model, header, indexMaker, stack, file, hasFile,
                   checkExpectedValue, tampered, edited, resaved, saved0, held0, secondSave, loadedFile,
                   unknownNamed,
                   openFiles, call, ret>>

\* the unreferenced sections, section 0 not excepted
unreferencedSectionsAll(secs) ==
    {i \in 1..Len(secs) : secs[i].timesReferenced = 0}

\* the sections with (section.timesReferenced == 0) and (sectionIndex != 0)
unreferencedSections(secs) ==
    {i \in 1..Len(secs) : secs[i].timesReferenced = 0 /\ i - 1 # 0}

\* checkThatAllSectionsGotReferenced, after the last section was resolved.
\* Its search for byte patterns of candidate references only writes to
\* stderr (and may raise too); with an unreferenced section the function
\* raises whatever the search finds.
CheckThatAllSectionsGotReferenced ==
    /\ pc = "resolveReferencesOfSections"
    /\ cursor > Len(sections)
    /\ IF unreferencedSections(sections) # {}
       THEN Raise("checkThatAllSectionsGotReferenced")
       ELSE pc' = "checked" /\ err' = err
    /\ UNCHANGED <<heap, model, header, indexMaker, sections, stack, cursor, file,
                   hasFile, checkExpectedValue, tampered, edited, resaved, saved0, held0, secondSave,
                   loadedFile, unknownNamed,
                   openFiles, call, ret>>

\* loadModel after checkThatAllSectionsGotReferenced:
\* header = sections[0].content[0]; model = header.model[0];
\* modelDescription.validateInstance(model, "model")
ReturnModel ==
    /\ pc = "checked"
    /\ LET content == sections[1].content
           hd == heap[content.n].f[1]
           fi == {i \in 1..Len(heap[hd.n].d.fields) : heap[hd.n].d.fields[i].name = "model"}
           ml == heap[hd.n].f[CHOOSE i \in fi : TRUE]
           m == heap[ml.n].f[1]
           ok == /\ Len(sections) > 0
                 /\ IsObj(heap, content, "list") /\ Len(heap[content.n].f) > 0
                 /\ IsStructure(heap, hd) /\ fi # {}
                 /\ IsObj(heap, ml, "list") /\ Len(heap[ml.n].f) > 0
                 /\ IsStructure(heap, m)
                 /\ validateInstance(heap[m.n].d, heap, m.n)
       IN IF ok
          THEN /\ model' = m.n
               /\ pc' = "loaded" /\ err' = err
          ELSE Raise("loadModel") /\ UNCHANGED model
    /\ UNCHANGED <<heap, header, indexMaker, sections, stack, cursor, file,
                   hasFile, checkExpectedValue, tampered, edited, resaved, saved0, held0, secondSave,
                   loadedFile, unknownNamed,
                   openFiles, call, ret>>

----------------------------------------------------------------------------
(* The environment: the caller saves again what loadModel returned, and the *)
(* file may be edited between save and load.                                *)

\* the caller passes the model loadModel returned to saveAndInvalidateModel
Resave ==
    /\ pc = "loaded" /\ ~resaved
    /\ pc' = "save"
    /\ resaved' = TRUE
    /\ saved0' = DeepValue(heap, ObjV(model))
    /\ held0' = ReferenceFieldsOf(heap, model)
    /\ secondSave' = FALSE
    /\ checkExpectedValue' = TRUE
    /\ UNCHANGED <<err, heap, model, header, indexMaker, sections, stack, cursor, file,
                   hasFile, tampered, edited, loadedFile, unknownNamed,
                   openFiles, call, ret>>

\* the caller passes the model object it has just saved to
\* saveAndInvalidateModel once more, with another file name
SaveAgain ==
    /\ pc = "saved" /\ ~resaved /\ ~tampered /\ ~secondSave
    /\ pc' = "save"
    /\ secondSave' = TRUE
    /\ saved0' = DeepValue(heap, ObjV(model))
    /\ held0' = ReferenceFieldsOf(heap, model)
    /\ UNCHANGED <<err, heap, model, header, indexMaker, sections, stack, cursor, file,
                   hasFile, checkExpectedValue, tampered, edited, resaved,
                   loadedFile, unknownNamed, openFiles, call, ret>>

\* <<offset, name>> of the fields, within a structure, that the loader
\* interprets: the fields of a Reference, the fields with an expected value
\* and, with `all`, every field
RECURSIVE FieldStartsFrom(_, _, _, _)
FieldStartsFrom(desc, i, offset, all) ==
    IF i > Len(desc.fields) THEN {}
    ELSE (IF IsReferenceField(desc.fields[i])
          THEN FieldStartsFrom(desc.fields[i].structureDescription, 1, offset, TRUE)
          ELSE IF desc.fields[i].cls = "EmbeddedStructureField"
          THEN FieldStartsFrom(desc.fields[i].structureDescription, 1, offset, all)
          ELSE IF all \/ desc.fields[i].expectedValue # None
          THEN {<<offset, desc.fields[i].name>>}
          ELSE {})
         \cup FieldStartsFrom(desc, i + 1, offset + desc.fields[i].size, all)

\* those fields in the file written from `secs`, in the sections and in the
\* index table: [p, s, f, base] is field f of a structure s that starts at
\* position base, the field itself at position p
FieldPositions(h, secs) ==
    UNION {{[p |-> GetAttr(h, secs[k].indexEntry, "offset").n
                     + (i - 1) * secs[k].structureDescription.size + o[1],
             s |-> secs[k].structureDescription.structureName, f |-> o[2],
             base |-> GetAttr(h, secs[k].indexEntry, "offset").n
                        + (i - 1) * secs[k].structureDescription.size] :
            i \in 1..GetAttr(h, secs[k].indexEntry, "repetitions").n,
            o \in FieldStartsFrom(secs[k].structureDescription, 1, 0, k = 1)} :
           k \in 1..Len(secs)}
    \cup {[p |-> GetAttr(h, h[secs[1].content.n].f[1].n, "indexOffset").n
                   + (k - 1) * MD34IndexEntryV0.size + o[1],
           s |-> N_MD34IndexEntry, f |-> o[2],
           base |-> GetAttr(h, h[secs[1].content.n].f[1].n, "indexOffset").n
                      + (k - 1) * MD34IndexEntryV0.size] :
          k \in 1..Len(secs), o \in FieldStartsFrom(MD34IndexEntryV0, 1, 0, TRUE)}

TamperValues == {0, 2, 9}

\* the low byte of one field of the written file is replaced before the file
\* is loaded
Tamper ==
    /\ pc = "saved" /\ ~resaved /\ ~tampered
    /\ \E e \in FieldPositions(heap, sections), b \in TamperValues :
         /\ file[e.p + 1] # b
         /\ file' = [file EXCEPT ![e.p + 1] = b]
         /\ edited' = e
    /\ tampered' = TRUE
    /\ UNCHANGED <<pc, err, heap, model, header, indexMaker, sections, stack, cursor,
                   hasFile, checkExpectedValue, resaved, saved0, held0, secondSave, loadedFile,
                   unknownNamed,
                   openFiles, call, ret>>

\* offset of the field `repetitions` in an index entry
repetitionsOffset ==
    (CHOOSE o \in FieldStartsFrom(MD34IndexEntryV0, 1, 0, TRUE) : o[2] = "repetitions")[1]

\* after the tag of an index entry, its repetitions are edited too: set to 0
TamperRepetitions ==
    /\ pc = "saved" /\ ~resaved /\ tampered
    /\ edited.s = N_MD34IndexEntry /\ edited.f = "tag"
    /\ file' = [file EXCEPT ![edited.base + repetitionsOffset + 1] = 0]
    /\ edited' = [edited EXCEPT !.f = "tag, repetitions"]
    /\ UNCHANGED <<pc, err, heap, model, header, indexMaker, sections, stack, cursor,
                   hasFile, checkExpectedValue, tampered, resaved, saved0, held0, secondSave,
                   loadedFile, unknownNamed,
                   openFiles, call, ret>>

Next ==
    \/ Validate
    \/ ModelToSectionsBegin
    \/ WalkReturn
    \/ WalkPlainField
    \/ WalkReferenceField
    \/ WalkElement
    \/ ModelToSectionsEnd
    \/ DetermineFieldRawBytes
    \/ ModelToSectionsReturn
    \/ SaveSectionsOpen
    \/ SaveSections
    \/ SaveSectionsFinally
    \/ Tamper
    \/ TamperRepetitions
    \/ LoadSectionsOpen
    \/ LoadSections
    \/ LoadSectionsFinally
    \/ ResolveReferences
    \/ CheckThatAllSectionsGotReferenced
    \/ ReturnModel
    \/ Resave
    \/ SaveAgain

Spec == Init /\ [][Next]_vars

----------------------------------------------------------------------------
(* The field codec on its own: TagField.writeToBuffer / readFromBuffer,     *)
(* the named bits of an IntField with the mask BitAttributesReader read for *)
(* them, and default construction.  `call` is the input, `ret` the sequence *)
(* of results so far; the save and load variables stay as CodecInit leaves  *)
(* them.                                                                    *)

\* the characters the tags are drawn from: NUL, '3', '4', 'D', 'I', 'M', 'V'
TagChars == {0, 51, 52, 68, 73, 77, 86}

\* the strings of 3 and of 4 characters
Tags == [1..3 -> TagChars] \cup [1..4 -> TagChars]

\* re.match("0x[0-9]+", maskString): a match of a prefix of the string
maskPatternMatches(maskString) ==
    /\ Len(maskString) >= 3
    /\ maskString[1] = "0" /\ maskString[2] = "x"
    /\ maskString[3] \in {"0", "1", "2", "3", "4", "5", "6", "7", "8", "9"}

hexDigit(ch) ==
    CASE ch = "0" -> 0 [] ch = "1" -> 1 [] ch = "2" -> 2 [] ch = "3" -> 3
      [] ch = "4" -> 4 [] ch = "5" -> 5 [] ch = "6" -> 6 [] ch = "7" -> 7
      [] ch = "8" -> 8 [] ch = "9" -> 9 [] ch = "a" -> 10 [] ch = "b" -> 11
      [] ch = "c" -> 12 [] ch = "d" -> 13 [] ch = "e" -> 14 [] ch = "f" -> 15
      [] OTHER -> -1

\* int(s, 0) of a string that starts with 0x: None for a ValueError
RECURSIVE hexValue(_, _, _)
hexValue(s, i, acc) ==
    IF i > Len(s) THEN Some(acc)
    ELSE IF hexDigit(s[i]) < 0 THEN None
    ELSE hexValue(s, i + 1, 16 * acc + hexDigit(s[i]))

\* BitAttributesReader.visitFieldBit and BitMaskMapDeterminer.visitFieldBit
\* for a bit node with the attributes name and mask: None when the reader
\* raises, else the bitMaskMap of the field
visitFieldBit(bitName, maskString) ==
    IF ~maskPatternMatches(maskString) THEN None
    ELSE IF hexValue(maskString, 3, 0) = None THEN None
    ELSE Some([name \in {bitName} |-> hexValue(maskString, 3, 0)[1]])

\* a & b, a | b, a ^ b of integers >= 0
RECURSIVE BitAnd(_, _)
BitAnd(a, b) ==
    IF a = 0 \/ b = 0 THEN 0
    ELSE (a % 2) * (b % 2) + 2 * BitAnd(a \div 2, b \div 2)

BitXor(a, b) == a + b - 2 * BitAnd(a, b)
BitOr(a, b) == a + b - BitAnd(a, b)

\* IntField.getNamedBit
getNamedBit(bitMaskMap, intValue, bitName) ==
    BitAnd(intValue, bitMaskMap[bitName]) # 0

\* IntField.setNamedBit: the value of the field afterwards
setNamedBit(bitMaskMap, intValue, bitName, value) ==
    IF value THEN BitOr(intValue, bitMaskMap[bitName])
    ELSE IF BitAnd(intValue, bitMaskMap[bitName]) # 0
    THEN BitXor(intValue, bitMaskMap[bitName])
    ELSE intValue

\* the field values the bits are set in: 0..MaxBitValue
MaxBitValue == 7

MaskChars == {"0", "1", "2", "3", "a", "g"}

\* the mask attributes read: 0x and up to two more characters, and two
\* strings without the prefix
MaskStrings ==
    {<<"0", "x">> \o t : t \in {<<>>} \cup [1..1 -> MaskChars] \cup [1..2 -> MaskChars]}
    \cup {<<"1">>, <<"x", "1">>}

\* the structure descriptions instances are default-constructed of
DefaultDescriptions ==
    {ModlV0, getVersion(ModlHistory, 1).desc, DivV0, MD34V11, MD34IndexEntryV0, ReferenceV0}

TagCalls == {[fn |-> "tag", a |-> <<s>>] : s \in Tags}
BitCalls ==
    {[fn |-> "bit", a |-> <<m, x, v>>] :
        m \in MaskStrings, x \in 0..MaxBitValue, v \in BOOLEAN}
DefaultCalls == {[fn |-> "default", a |-> <<d>>] : d \in DefaultDescriptions}

CodecInit ==
    /\ \/ call \in TagCalls
       \/ call \in BitCalls
       \/ call \in DefaultCalls
    /\ ret = <<>>
    /\ pc = "codec"
    /\ err = ""
    /\ heap = <<>>
    /\ model = 0
    /\ header = 0
    /\ indexMaker = NewIndexMaker
    /\ sections = <<>>
    /\ stack = <<>>
    /\ cursor = 0
    /\ file = <<>>
    /\ hasFile = FALSE
    /\ checkExpectedValue = TRUE
    /\ tampered = FALSE
    /\ edited = NoEdit
    /\ resaved = FALSE
    /\ saved0 = <<>>
    /\ held0 = {}
    /\ secondSave = FALSE
    /\ loadedFile = <<>>
    /\ unknownNamed = {}
    /\ openFiles = {}

CodecUnchanged ==
    UNCHANGED <<pc, err, model, header, indexMaker, sections, stack, cursor, file,
                hasFile, checkExpectedValue, tampered, edited, resaved, saved0, held0, secondSave,
                loadedFile, unknownNamed, openFiles, call>>

\* TagField.writeToBuffer of an owner whose tag is call.a[1], into an empty
\* buffer of 4 bytes
TagWrite ==
    /\ call.fn = "tag" /\ ret = <<>>
    /\ ret' = <<TagFieldWrite(heap, StrV(call.a[1]))>>
    /\ UNCHANGED heap
    /\ CodecUnchanged

\* TagField.readFromBuffer of the buffer just written
TagRead ==
    /\ call.fn = "tag" /\ Len(ret) = 1 /\ ret[1].ok
    /\ ret' = Append(ret, TagFieldRead(ret[1].b, 0))
    /\ UNCHANGED heap
    /\ CodecUnchanged

\* the schema reader reads <bit name="b" mask=call.a[1]/>
VisitFieldBit ==
    /\ call.fn = "bit" /\ ret = <<>>
    /\ ret' = <<visitFieldBit("b", call.a[1])>>
    /\ UNCHANGED heap
    /\ CodecUnchanged

\* setNamedBit(owner, "b", call.a[3]) on a field that holds call.a[2], and
\* then once more
SetNamedBit ==
    /\ call.fn = "bit" /\ Len(ret) \in {1, 2} /\ ret[1] # None
    /\ ret' = Append(ret, setNamedBit(ret[1][1],
                                     IF Len(ret) = 1 THEN call.a[2] ELSE ret[2],
                                     "b", call.a[3]))
    /\ UNCHANGED heap
    /\ CodecUnchanged

\* getNamedBit(owner, "b") after the two calls of setNamedBit
GetNamedBit ==
    /\ call.fn = "bit" /\ Len(ret) = 3
    /\ ret' = Append(ret, getNamedBit(ret[1][1], ret[3], "b"))
    /\ UNCHANGED heap
    /\ CodecUnchanged

\* structureDescription.createInstance() without a buffer
CreateInstance ==
    /\ call.fn = "default" /\ ret = <<>>
    /\ \E r \in {createDefaultInstance(call.a[1], heap)} :
         /\ heap' = r.h
         /\ ret' = <<r.v>>
    /\ CodecUnchanged

CodecNext ==
    \/ TagWrite
    \/ TagRead
    \/ VisitFieldBit
    \/ SetNamedBit
    \/ GetNamedBit
    \/ CreateInstance

CodecSpec == CodecInit /\ [][CodecNext]_vars

----------------------------------------------------------------------------
(* The schema reader on its own: readStructureDefinitions visiting a        *)
(* document of <structure> nodes in order.  `call.a` is the document; `ret` *)
(* is the reader's state:                                                   *)
(*   structures  generalDataMap["structures"], the histories in the order   *)
(*               their names were first registered                          *)
(*   memo        versionToStructureDescriptionMap of each of them           *)
(*   created     every M3StructureHistory constructed, in order             *)
(*   i, v, j     the structure node, version node and field node reached    *)
(*   versionToSizeMap, fields   classDataMap of the node being visited      *)
(*   got         what the last getVersion of a client returned              *)
(* A node is [structureName, versions, fields]; a version node is           *)
(* [number, size]; a field node is [fieldName, typeString, refTo,           *)
(* sinceVersion].  Strings are character codes.                             *)

N_A == <<65>>
N_SmallReference == <<83, 109, 97, 108, 108>> \o N_Reference
T_uint32 == <<117, 105, 110, 116, 51, 50>>

\* typeString[:vPos] + "V" + digits
Versioned(name, digits) == name \o <<86>> \o digits

\* typeString.rfind("V"), counted from 1; 0 when there is none
RECURSIVE rfindV(_, _)
rfindV(typeString, i) ==
    IF i = 0 THEN 0
    ELSE IF typeString[i] = 86 THEN i
    ELSE rfindV(typeString, i - 1)

\* int(s) of a string of decimal digits: None for a ValueError
RECURSIVE intOf(_, _, _)
intOf(s, i, acc) ==
    IF s = <<>> THEN None
    ELSE IF i > Len(s) THEN Some(acc)
    ELSE IF s[i] < 48 \/ s[i] > 57 THEN None
    ELSE intOf(s, i + 1, 10 * acc + (s[i] - 48))

\* refTo in structures, structures.get(name) != None: its position, or 0
registered(reg, name) ==
    IF \E k \in 1..Len(reg.structures) : reg.structures[k].name = name
    THEN CHOOSE k \in 1..Len(reg.structures) : reg.structures[k].name = name
    ELSE 0

\* M3StructureHistory.getVersion of the history at position k, with its
\* versionToStructureDescriptionMap: [r, desc, memo]
getVersionMemoized(reg, k, version) ==
    IF version \in DOMAIN reg.memo[k]
    THEN [r |-> "ok", desc |-> reg.memo[k][version], memo |-> reg.memo]
    ELSE CHOOSE out \in {
             [r |-> g.r, desc |-> g.desc,
              memo |-> IF g.r = "ok"
                       THEN [reg.memo EXCEPT ![k] = (version :> g.desc) @@ @]
                       ELSE reg.memo]
             : g \in {getVersion(reg.structures[k], version)} } : TRUE

\* the subclass of ReferenceField that FieldListCreator.visitFieldEnd picks
referenceClass(refTo) ==
    IF refTo = None THEN "UnknownReferenceField"
    ELSE IF refTo[1] = N_CHAR THEN "CharReferenceField"
    ELSE IF refTo[1] = N_U8 THEN "ByteReferenceField"
    ELSE IF refTo[1] = N_REAL THEN "RealReferenceField"
    ELSE IF refTo[1] \in {N_I16, N_U16, N_I32, N_U32} THEN "IntReferenceField"
    ELSE "StructureReferenceField"

FieldFail(reg, why) == [err |-> why, field |-> <<>>, memo |-> reg.memo]

\* the end of FieldListCreator.visitFieldEnd for a field whose type names the
\* registered structure parsed.name: getVersion and the field's constructor
structureField(reg, node, parsed) ==
    CHOOSE out \in {
        IF g.r = "raise" THEN FieldFail(reg, "Size mismatch")
        ELSE IF g.r = "none" THEN FieldFail(reg, "AttributeError")
        ELSE [err |-> "",
              field |-> IF parsed.name \in {N_Reference, N_SmallReference}
                        THEN ReferenceField(node.fieldName, referenceClass(node.refTo),
                                            g.desc, node.refTo, node.sinceVersion,
                                            node.tillVersion)
                        ELSE EmbeddedStructureField(node.fieldName, g.desc,
                                                    node.sinceVersion, node.tillVersion),
              memo |-> g.memo]
        : g \in {getVersionMemoized(reg, registered(reg, parsed.name),
                                     parsed.version[1])} } : TRUE

\* typeString split at its last "V": [name, version], version None when
\* int() raises
parseTypeString(typeString) ==
    CHOOSE out \in {
        IF vPos # 0
        THEN [name |-> SubSeq(typeString, 1, vPos - 1),
              version |-> intOf(SubSeq(typeString, vPos + 1, Len(typeString)), 1, 0)]
        ELSE [name |-> typeString, version |-> Some(0)]
        : vPos \in {rfindV(typeString, Len(typeString))} } : TRUE

\* a visitFieldEnd without the check that refTo is a registered structure
visitFieldEndAnyRefTo(reg, node) ==
    IF node.typeString = T_uint32
    THEN [err |-> "",
          field |-> IntField(node.fieldName, "uint32", node.sinceVersion,
                             node.tillVersion,
                             IntV(0), None),
          memo |-> reg.memo]
    ELSE CHOOSE out \in {
             IF parsed.version = None THEN FieldFail(reg, "ValueError")
             ELSE IF registered(reg, parsed.name) = 0
             THEN FieldFail(reg, "has not been defined before")
             ELSE structureField(reg, node, parsed)
             : parsed \in {parseTypeString(node.typeString)} } : TRUE

\* FieldListCreator.visitFieldEnd for a field node of type uint32 or of a
\* type that names a structure (the documents read hold no other):
\* [err, field, memo], err = "" when the field was made
visitFieldEnd(reg, node) ==
    IF node.typeString = T_uint32
    THEN [err |-> "",
          field |-> IntField(node.fieldName, "uint32", node.sinceVersion,
                             node.tillVersion,
                             IntV(0), None),
          memo |-> reg.memo]
    ELSE CHOOSE out \in {
             IF parsed.version = None THEN FieldFail(reg, "ValueError")
             ELSE IF parsed.name \in {N_Reference, N_SmallReference}
             THEN IF node.refTo # None /\ registered(reg, node.refTo[1]) = 0
                  THEN FieldFail(reg, "is not defined")
                  ELSE IF registered(reg, parsed.name) = 0
                  THEN FieldFail(reg, "KeyError")
                  ELSE structureField(reg, node, parsed)
             ELSE IF registered(reg, parsed.name) = 0
             THEN FieldFail(reg, "has not been defined before")
             ELSE structureField(reg, node, parsed)
             : parsed \in {parseTypeString(node.typeString)} } : TRUE

\* StructureHistoryListCreator.visitClassEnd: structures[structureName] =
\* M3StructureHistory(structureName, versionToSizeMap, fields)
visitClassEnd(reg, structureName) ==
    CHOOSE out \in {
        IF registered(reg, structureName) = 0
        THEN [reg EXCEPT !.structures = Append(@, history),
                         !.memo = Append(@, <<>>),
                         !.created = Append(@, history)]
        ELSE [reg EXCEPT !.structures[registered(reg, structureName)] = history,
                         !.memo[registered(reg, structureName)] = <<>>,
                         !.created = Append(@, history)]
        : history \in {M3StructureHistory(structureName, reg.versionToSizeMap,
                                          reg.fields)} } : TRUE

\* the documents read: at most MaxStructures structure nodes named "A" or
\* "Reference", each with one of these version lists and field lists
MaxStructures == 2

VersionLists ==
    { <<[number |-> 0, size |-> 4]>>,
      <<[number |-> 0, size |-> 8]>>,
      <<[number |-> 0, size |-> 4], [number |-> 1, size |-> 8]>>,
      <<[number |-> 0, size |-> 8], [number |-> 1, size |-> 4]>> }

FieldNode(fieldName, typeString, refTo, sinceVersion, tillVersion) ==
    [fieldName |-> fieldName, typeString |-> typeString, refTo |-> refTo,
     sinceVersion |-> sinceVersion, tillVersion |-> tillVersion]

FieldLists ==
    { <<FieldNode("x", T_uint32, None, None, None)>>,
      <<FieldNode("x", T_uint32, None, None, None),
        FieldNode("y", T_uint32, None, Some(1), None)>>,
      <<FieldNode("x", T_uint32, None, None, Some(0)),
        FieldNode("y", T_uint32, None, None, None)>>,
      <<FieldNode("a", Versioned(N_A, <<48>>), None, None, None)>>,
      <<FieldNode("r", Versioned(N_Reference, <<48>>), None, None, None)>>,
      <<FieldNode("p", N_Reference, Some(N_A), None, None)>>,
      <<FieldNode("q", N_Reference, None, None, None)>> }

StructureNodes ==
    {[structureName |-> n, versions |-> vs, fields |-> fs] :
        n \in {N_A, N_Reference}, vs \in VersionLists, fs \in FieldLists}

Documents == UNION {[1..n -> StructureNodes] : n \in 1..MaxStructures}

\* the versions a client asks a loaded history for
MaxVersion == 2

NoGot == [r |-> "", desc |-> NoDesc, k |-> 0, version |-> 0]

\* generalDataMap and classDataMap of visitStructresDomWith: the registry
\* (structures, each history's memo of descriptions, every history created),
\* the position in the document (structure i, version v, field j), the
\* class's versionToSizeMap and fields, and what a client's getVersion got
NewReader ==
    [structures |-> <<>>, memo |-> <<>>, created |-> <<>>, i |-> 1, v |-> 1,
     j |-> 1, versionToSizeMap |-> <<>>, fields |-> <<>>, got |-> NoGot]

SchemaInit ==
    /\ call \in {[fn |-> "schema", a |-> doc] : doc \in Documents}
    /\ ret = NewReader
    /\ pc = "visitStart"
    /\ err = ""
    /\ heap = <<>>
    /\ model = 0
    /\ header = 0
    /\ indexMaker = NewIndexMaker
    /\ sections = <<>>
    /\ stack = <<>>
    /\ cursor = 0
    /\ file = <<>>
    /\ hasFile = FALSE
    /\ checkExpectedValue = TRUE
    /\ tampered = FALSE
    /\ edited = NoEdit
    /\ resaved = FALSE
    /\ saved0 = <<>>
    /\ held0 = {}
    /\ secondSave = FALSE
    /\ loadedFile = <<>>
    /\ unknownNamed = {}
    /\ openFiles = {}

SchemaUnchanged ==
    UNCHANGED <<heap, model, header, indexMaker, sections, stack, cursor, file,
                hasFile, checkExpectedValue, tampered, edited, resaved, saved0,
                held0, secondSave, loadedFile, unknownNamed, openFiles, call>>

\* StructureHistoryListCreator.visitStart: generalDataMap["structures"] = {}
VisitStart ==
    /\ pc = "visitStart"
    /\ ret' = [ret EXCEPT !.structures = <<>>, !.memo = <<>>]
    /\ pc' = "visitClassStart"
    /\ UNCHANGED err
    /\ SchemaUnchanged

\* visitClassStart of StructureAttributesReader and FieldListCreator
VisitClassStart ==
    /\ pc = "visitClassStart"
    /\ ret' = [ret EXCEPT !.versionToSizeMap = <<>>, !.fields = <<>>,
                          !.v = 1, !.j = 1]
    /\ pc' = "visitVersion"
    /\ UNCHANGED err
    /\ SchemaUnchanged

\* StructureAttributesReader.visitVersion of the next version node
VisitVersion ==
    /\ pc = "visitVersion"
    /\ \E version \in {call.a[ret.i].versions[ret.v]} :
         IF version.number \in DOMAIN ret.versionToSizeMap
         THEN /\ err' = "two times the same version"
              /\ pc' = "schemaFailed"
              /\ UNCHANGED ret
         ELSE /\ ret' = [ret EXCEPT
                           !.versionToSizeMap = (version.number :> version.size) @@ @,
                           !.v = @ + 1]
              /\ pc' = IF ret.v = Len(call.a[ret.i].versions)
                       THEN "visitField" ELSE "visitVersion"
              /\ UNCHANGED err
    /\ SchemaUnchanged

\* visitFieldStart to visitFieldEnd of the next field node
VisitField ==
    /\ pc = "visitField"
    /\ \E r \in {visitFieldEnd(ret, call.a[ret.i].fields[ret.j])} :
         IF r.err # ""
         THEN /\ err' = r.err
              /\ pc' = "schemaFailed"
              /\ UNCHANGED ret
         ELSE /\ ret' = [ret EXCEPT !.fields = Append(@, r.field),
                                    !.memo = r.memo, !.j = @ + 1]
              /\ pc' = IF ret.j = Len(call.a[ret.i].fields)
                       THEN "visitClassEnd" ELSE "visitField"
              /\ UNCHANGED err
    /\ SchemaUnchanged

\* StructureHistoryListCreator.visitClassEnd, and the loop's next structure
VisitClassEnd ==
    /\ pc = "visitClassEnd"
    /\ ret' = [visitClassEnd(ret, call.a[ret.i].structureName) EXCEPT !.i = @ + 1]
    /\ pc' = IF ret.i = Len(call.a) THEN "visitEnd" ELSE "visitClassStart"
    /\ UNCHANGED err
    /\ SchemaUnchanged

\* visitEnd; readStructureDefinitions returns generalDataMap["structures"]
VisitEnd ==
    /\ pc = "visitEnd"
    /\ pc' = "schemaLoaded"
    /\ UNCHANGED <<ret, err>>
    /\ SchemaUnchanged

\* a client's structures[name].getVersion(version) after the load
GetVersion ==
    /\ pc = "schemaLoaded"
    /\ \E k \in 1..Len(ret.structures), version \in 0..MaxVersion :
         \E g \in {getVersionMemoized(ret, k, version)} :
           ret' = [ret EXCEPT !.memo = g.memo,
                              !.got = [r |-> g.r, desc |-> g.desc, k |-> k,
                                       version |-> version]]
    /\ pc' = "getVersionReturned"
    /\ UNCHANGED err
    /\ SchemaUnchanged

SchemaNext ==
    \/ VisitStart
    \/ VisitClassStart
    \/ VisitVersion
    \/ VisitField
    \/ VisitClassEnd
    \/ VisitEnd
    \/ GetVersion

SchemaSpec == SchemaInit /\ [][SchemaNext]_vars

----------------------------------------------------------------------------
(* Properties *)

\* the exceptions that end saveAndInvalidateModel
SaveErrors == {"validateInstance", "introduceIndexReferences", "RecursionError",
               "determineFieldRawBytes", "saveSections", "OSError"}

\* the call in progress, or the call that failed, is saveAndInvalidateModel
Saving ==
    \/ pc \in {"save", "modelToSections", "walk", "determineFieldRawBytes",
              "saveSections", "saveSections.try", "saveSections.finally"}
    \/ pc = "failed" /\ err \in SaveErrors

\* loadModel has read the file: it is at a later statement, has returned, or
\* has failed
Loading ==
    \/ pc \in {"resolveReferencesOfSections", "checked", "loaded"}
    \/ pc = "failed" /\ err \notin SaveErrors

\* C1: a model that passes validation is saved (the device taking every
\* write) and loaded again without failure, and the model loadModel returns
\* from the file as written is deep-value-equal to the model as it was when
\* the save began.
C1_SaveLoadRoundTrip ==
    ~tampered =>
        /\ (pc = "failed" => err \in {"validateInstance", "OSError"})
        /\ (pc = "loaded" => DeepValue(heap, ObjV(model)) = saved0)

\* C1: a model was saved, the file loaded as written, and a model returned
C1_Witness ==
    pc = "loaded" /\ ~tampered /\ saved0.c[2].c # <<>>

\* C2: a file with schema-known sections (a file saveSections wrote, as
\* written or with the flags of one Reference record changed) is loaded and
\* the loaded model saved: the file written is byte-for-byte the file read.
C2_LoadSaveIdentity ==
    (pc = "saved" /\ resaved /\ edited.f \in {"", "flags"}) => file = loadedFile

\* C2: a file was loaded and the loaded model saved again
C2_Witness ==
    pc = "saved" /\ resaved /\ ~tampered /\ Len(sections) > 2 /\ file = loadedFile

\* Section.bytesRequiredForContent and Section.determineRawBytesWithData of
\* a section of the current heap
bytesRequiredForContent(sec) ==
    countBytesRequiredForInstances(sec.structureDescription, heap, sec.content).n

determineRawBytesWithData(sec) ==
    instancesToBytes(sec.structureDescription, heap, sec.content).b

\* C3: after Section.determineFieldRawBytes, for a content of n bytes,
\* rawBytes has the length of the smallest multiple of 16 that is >= n, its
\* first n bytes are the serialized content and every later byte is 0xAA.
C3_RawBytesPadded ==
    pc \in {"determineFieldRawBytes", "saveSections"} =>
        \A i \in 1..Len(sections) :
            sections[i].hasRawBytes =>
                /\ Len(sections[i].rawBytes) % 16 = 0
                /\ Len(sections[i].rawBytes) >= bytesRequiredForContent(sections[i])
                /\ Len(sections[i].rawBytes) < bytesRequiredForContent(sections[i]) + 16
                /\ SubSeq(sections[i].rawBytes, 1, bytesRequiredForContent(sections[i]))
                       = determineRawBytesWithData(sections[i])
                /\ \A j \in (bytesRequiredForContent(sections[i]) + 1)..Len(sections[i].rawBytes) :
                       sections[i].rawBytes[j] = 170

\* C3: a content of 37 bytes got rawBytes of 48 bytes, and a content of 16
\* bytes got rawBytes of 16 bytes
C3_Witness ==
    /\ pc = "saveSections"
    /\ \E i \in 1..Len(sections) :
          bytesRequiredForContent(sections[i]) = 37 /\ Len(sections[i].rawBytes) = 48
    /\ \E i \in 1..Len(sections) :
          bytesRequiredForContent(sections[i]) = 16 /\ Len(sections[i].rawBytes) = 16

\* the heap is the one saveAndInvalidateModel works on, the model being one
\* that held its lists when the save began
SaveHeap == ~secondSave /\ (Saving \/ pc = "saved")

\* introduceIndexReferences has replaced the list of the reference field
\* `a` of held0 by a Reference record
Introduced(a) ==
    /\ IsStructure(heap, heap[a.obj].f[a.fi])
    /\ heap[heap[a.obj].f[a.fi].n].d.structureName = N_Reference

\* the entries and the index of that record
entriesOf(a) == GetAttr(heap, heap[a.obj].f[a.fi].n, "entries").n
indexOf(a) == GetAttr(heap, heap[a.obj].f[a.fi].n, "index").n

\* C4: when two distinct reference fields of the model hold the same
\* non-empty list object, modelToSections completes, both fields end up with
\* Reference records of identical (entries, index), and exactly one section
\* holds that list; whatever the element type of the list.
C4_AliasedListsShareOneSection ==
    SaveHeap =>
        \A a, b \in held0 :
            (a # b /\ a.list.k = "obj" /\ a.list = b.list /\ PyLen(heap, a.list) > 0) =>
                /\ ~(pc = "failed" /\ err = "introduceIndexReferences")
                /\ pc \in {"determineFieldRawBytes", "saveSections", "saved"} =>
                       /\ Introduced(a) /\ Introduced(b)
                       /\ entriesOf(a) = entriesOf(b) /\ indexOf(a) = indexOf(b)
                       /\ Cardinality({i \in 1..Len(sections) :
                                          sections[i].content = a.list}) = 1

\* C4: two reference fields held the same non-empty byte array, and
\* modelToSections has completed with one section for it
C4_Witness ==
    /\ pc = "saveSections"
    /\ \E a, b \in held0 :
          /\ a # b /\ a.list.k = "obj" /\ a.list = b.list /\ PyLen(heap, a.list) > 0
          /\ entriesOf(a) = entriesOf(b) /\ indexOf(a) = indexOf(b)
          /\ Cardinality({i \in 1..Len(sections) : sections[i].content = a.list}) = 1

\* C5: two reference fields that hold distinct non-empty list objects, equal
\* or not, are given different sections: the Reference record a field is
\* given points to the section whose content is the very object the field
\* held, so two distinct objects never get the same index.
C5_DistinctListsDistinctSections ==
    SaveHeap =>
        /\ \A a \in held0 :
               (Introduced(a) /\ entriesOf(a) > 0) =>
                   /\ indexOf(a) < Len(sections)
                   /\ sections[indexOf(a) + 1].content = a.list
        /\ \A a, b \in held0 :
               (/\ Introduced(a) /\ Introduced(b)
                /\ entriesOf(a) > 0 /\ entriesOf(b) > 0 /\ a.list # b.list)
               => indexOf(a) # indexOf(b)

\* C5: two reference fields held equal but distinct non-empty byte arrays,
\* and modelToSections has given each its Reference record
C5_Witness ==
    /\ pc = "saveSections"
    /\ \E a, b \in held0 :
          /\ a.list.k = "obj" /\ b.list.k = "obj" /\ a.list # b.list
          /\ PyLen(heap, a.list) > 0
          /\ DeepValue(heap, a.list) = DeepValue(heap, b.list)
          /\ Introduced(a) /\ Introduced(b)
          /\ indexOf(a) # indexOf(b)

\* <<field, record>>: the reference fields of structure `id`, embedded
\* structures included, each with the Reference record read into it
RECURSIVE ReferenceRecordsOf(_, _)
ReferenceRecordsOf(h, id) ==
    UNION {
        IF IsReferenceField(h[id].d.fields[i]) THEN {<<h[id].d.fields[i], h[id].f[i].n>>}
        ELSE IF h[id].d.fields[i].cls = "EmbeddedStructureField"
        THEN ReferenceRecordsOf(h, h[id].f[i].n)
        ELSE {}
        : i \in 1..Len(h[id].d.fields) }

\* those of every structure of the content of section `sec`
ReferenceRecordsIn(h, sec) ==
    IF sec.structureDescription.isPrimitive THEN {}
    ELSE UNION {ReferenceRecordsOf(h, h[sec.content.n].f[i].n) :
                i \in 1..Len(h[sec.content.n].f)}

\* the three conditions on a Reference record with entries > 0
Resolvable(h, secs, field, record) ==
    \/ GetAttr(h, record, "entries") = IntV(0)
    \/ /\ GetAttr(h, record, "index").n < Len(secs)
       /\ ~IntLess(GetAttr(h, secs[GetAttr(h, record, "index").n + 1].indexEntry,
                           "repetitions"),
                   GetAttr(h, record, "entries"))
       /\ field.historyOfReferencedStructures # None
       /\ GetAttr(h, secs[GetAttr(h, record, "index").n + 1].indexEntry, "tag").s
              = field.historyOfReferencedStructures[1]

\* C6: resolving the references of a section fails exactly when one of its
\* Reference records with entries > 0 has an index that is no section, or
\* points to a section of fewer repetitions than its entries, or to a section
\* whose tag is not the structure name of the field's refTo; so every record
\* resolved in a successful load satisfied the three conditions.
C6_ResolveChecksReference ==
    [][(pc = "resolveReferencesOfSections" /\ cursor <= Len(sections))
         => ((pc' = "failed")
               <=> \E r \in ReferenceRecordsIn(heap, sections[cursor]) :
                      ~Resolvable(heap, sections, r[1], r[2]))]_vars

\* C6: resolution has resolved one Reference record and raised on a later one
C6_Witness ==
    /\ pc = "failed" /\ err = "resolveIndexReferences"
    /\ \E i \in 1..Len(sections) : sections[i].timesReferenced > 0

\* C7: loadModel gets past checkThatAllSectionsGotReferenced, and returns a
\* model, only with every section 1..N-1 referenced at least once;
\* checkThatAllSectionsGotReferenced raises only for an unreferenced section among 1..N-1, never for section 0.
C7_AllSectionsReferenced ==
    /\ pc \in {"checked", "loaded"} =>
          \A i \in 2..Len(sections) : sections[i].timesReferenced >= 1
    /\ (pc = "failed" /\ err = "checkThatAllSectionsGotReferenced") =>
          \E i \in 2..Len(sections) : sections[i].timesReferenced = 0

\* C7: a model was returned, with section 0 never referenced
C7_Witness ==
    pc = "loaded" /\ Len(sections) > 1 /\ sections[1].timesReferenced = 0

\* the (tag, version) pairs of the index entries of file f that the schema
\* does not have
unknownPairs(f) ==
    LET hr == createInstance(MD34V11, <<>>, FileRead(f, 0, MD34V11.size), FALSE)
        es == ReadIndexEntriesFrom(f, hr.h, 0, GetAttr(hr.h, hr.v.n, "indexSize").n,
                                   GetAttr(hr.h, hr.v.n, "indexOffset").n, FALSE, <<>>)
    IN IF ~hr.ok THEN {}
       ELSE IF ~es.ok THEN {}
       ELSE {<<GetAttr(es.h, es.secs[i].indexEntry, "tag").s,
               GetAttr(es.h, es.secs[i].indexEntry, "version")>> :
             i \in {j \in 1..Len(es.secs) :
                      lookupDescription(GetAttr(es.h, es.secs[j].indexEntry, "tag").s,
                                        GetAttr(es.h, es.secs[j].indexEntry, "version").n)
                          = None}}

\* C8: a file in which an index entry's (tag, version) is not in the schema
\* (a written file with the tag of one index entry changed, and possibly the
\* repetitions of that entry) makes loadSections fail with the error that
\* names every unknown pair of the file, raised after all index entries were
\* examined; reference resolution is not started.
C8_UnknownSectionsNamed ==
    (/\ Loading
     /\ edited.s = N_MD34IndexEntry /\ edited.f \in {"tag", "tag, repetitions"}
     /\ unknownPairs(loadedFile) # {})
    => /\ pc = "failed" /\ err = "unknownSections"
       /\ unknownNamed = unknownPairs(loadedFile)

\* C8: the load of a file with an unknown section has failed naming its pair
C8_Witness ==
    /\ pc = "failed" /\ err = "unknownSections"
    /\ unknownNamed # {} /\ unknownNamed = unknownPairs(loadedFile)

\* the schema declares an expected value for the edited field
editedHasExpectedValue ==
    \E k \in 1..Len(structures) :
        /\ structures[k].name = edited.s
        /\ \E i \in 1..Len(structures[k].allFields) :
              /\ structures[k].allFields[i].name = edited.f
              /\ structures[k].allFields[i].expectedValue # None

\* C9: a field with a declared expected value that carries another value in
\* the file makes loadModel fail when checkExpectedValue is true and never
\* when it is false, whatever the kind of the field.
C9_ExpectedValueGuarded ==
    (Loading /\ editedHasExpectedValue) => (pc = "failed" <=> checkExpectedValue)

\* C9: a file whose raw-bytes field differs from its expected value was
\* loaded with checkExpectedValue = false
C9_Witness ==
    pc = "loaded" /\ editedHasExpectedValue /\ ~checkExpectedValue

\* an integer field holds an int within [minValue, maxValue]
validIntContent(field, v) ==
    v.k = "int" /\ (IsBig(v) \/ (v.n >= field.minValue /\ v.n <= field.maxValue))

\* C10: a model that got past validateInstance at the start of save has, in
\* every structure reachable from it (every structure of the heap is, or
\* was created by the save itself), only integer fields that hold an integer
\* within [min, max] of the declared width.
C10_ValidationRejectsInvalid ==
    pc \in {"modelToSections", "walk", "determineFieldRawBytes", "saveSections"} =>
        \A id \in 1..Len(heap) :
            heap[id].k = "M3Structure" =>
                \A i \in 1..Len(heap[id].d.fields) :
                    heap[id].d.fields[i].cls = "IntField" =>
                        validIntContent(heap[id].d.fields[i], heap[id].f[i])

\* C10: validateInstance has raised on a model
C10_Witness ==
    pc = "failed" /\ err = "validateInstance" /\ ~resaved

----------------------------------------------------------------------------
\* the exceptions of validation and of section materialization
BeforeOpenErrors ==
    {"validateInstance", "introduceIndexReferences", "RecursionError",
     "determineFieldRawBytes"}

\* C11: in saveAndInvalidateModel, validation finishes before any reference
\* field of the model is rewritten, and the output file is opened only after
\* every section has its rawBytes: while the save has not reached
\* saveSections, or has failed in validation or materialization, the output
\* file is not open and holds what it held before the call (nothing on a
\* first save); when validation fails the model graph is as it was passed in
C11_NothingWrittenBeforeMaterialized ==
    /\ (pc = "save" \/ (pc = "failed" /\ err = "validateInstance"))
          => /\ DeepValue(heap, ObjV(model)) = saved0
             /\ ReferenceFieldsOf(heap, model) = held0
    /\ (\/ pc \in {"save", "modelToSections", "walk", "determineFieldRawBytes",
                   "saveSections"}
        \/ (pc = "failed" /\ err \in BeforeOpenErrors))
          => /\ "fileObject" \notin openFiles
             /\ hasFile = (resaved \/ secondSave)
             /\ secondSave \/ file = loadedFile
    /\ "fileObject" \in openFiles
          => \A i \in 1..Len(sections) : sections[i].hasRawBytes

\* a first save failed while materializing a section and left no file
C11_Witness ==
    /\ pc = "failed" /\ err = "determineFieldRawBytes"
    /\ ~hasFile /\ file = <<>>
    /\ \E i \in 1..Len(sections) : sections[i].hasRawBytes

\* C17: the file object of saveSections and the one of loadSections are
\* open only inside the try statement of their call: wherever that call has
\* returned or raised, neither is open
C17_FilesClosedOnEveryExit ==
    /\ "fileObject" \in openFiles => pc \in {"saveSections.try", "saveSections.finally"}
    /\ "source" \in openFiles => pc \in {"loadSections.try", "loadSections.finally"}

\* loadSections raised (anywhere in its try body) and its file is closed
C17_Witness ==
    /\ pc = "failed" /\ err = "determineContentField"
    /\ loadedFile # <<>> /\ openFiles = {}

\* C18: the flags word of a Reference record survives load followed by
\* save: where the file read carried flags f in a Reference record, the file
\* written carries f in the record of the same field; and every Reference
\* record written for a model built in memory has flags 0
C18_ReferenceFlagsPreserved ==
    /\ (pc = "saved" /\ ~resaved /\ ~tampered)
          => \A e \in FieldPositions(heap, sections) :
                e.f = "flags" => SubSeq(file, e.p + 1, e.p + 4) = <<0, 0, 0, 0>>
    /\ (pc = "saved" /\ resaved /\ edited.f = "flags")
          => /\ edited \in FieldPositions(heap, sections)
             /\ SubSeq(file, edited.p + 1, edited.p + 4)
                  = SubSeq(loadedFile, edited.p + 1, edited.p + 4)

\* a file whose Reference record carried flags other than 0 was loaded and
\* the loaded model saved
C18_Witness ==
    /\ pc = "saved" /\ resaved /\ edited.f = "flags"
    /\ SubSeq(loadedFile, edited.p + 1, edited.p + 4) # <<0, 0, 0, 0>>

\* the walk is about to call ReferenceField.introduceIndexReferences for
\* field Top.fi of Top.obj
AtReferenceField ==
    /\ pc = "walk" /\ stack # <<>> /\ Top.mode = "fields"
    /\ Top.fi <= Len(heap[Top.obj].d.fields)
    /\ IsReferenceField(heap[Top.obj].d.fields[Top.fi])

\* a referent without elements: None, or a collection of length 0
emptyReferent(h, v) == v = NoneV \/ (HasLen(h, v) /\ PyLen(h, v) = 0)

\* the step leaves in the field a Reference record with entries = 0 and
\* index = nextFreeIndexPosition, and the section list, the offset and
\* nextFreeIndexPosition as they were
EmptyReferenceReturned ==
    /\ sections' = sections
    /\ indexMaker' = indexMaker
    /\ IsStructure(heap', heap'[Top.obj].f[Top.fi])
    /\ heap'[heap'[Top.obj].f[Top.fi].n].d.structureName = N_Reference
    /\ GetAttr(heap', heap'[Top.obj].f[Top.fi].n, "entries") = IntV(0)
    /\ GetAttr(heap', heap'[Top.obj].f[Top.fi].n, "index")
         = IntV(indexMaker.nextFreeIndexPosition)

\* C20 (as stated): on save, for every reference field whose referent is
\* empty (an empty list, an empty byte array, an empty string or None, the
\* CHAR default), getIndexReferenceTo returns a Reference record with
\* entries = 0 and index = nextFreeIndexPosition and leaves the section list,
\* the offset and nextFreeIndexPosition unchanged
C20_EmptyReferentsGetNoSection ==
    [][(AtReferenceField /\ emptyReferent(heap, heap[Top.obj].f[Top.fi]))
          => EmptyReferenceReturned]_vars

\* C20 (amended): the same for every referent that is an empty list, an
\* empty byte array or None; an empty string is not among them
C20_EmptyCollectionsGetNoSection ==
    [][(/\ AtReferenceField
        /\ emptyReferent(heap, heap[Top.obj].f[Top.fi])
        /\ ~IsStr(heap, heap[Top.obj].f[Top.fi]))
          => EmptyReferenceReturned]_vars

\* a reference field that held an empty list or byte array, or None, now
\* holds a Reference record with entries = 0 and the index of a section
\* that came later or never
C20_Witness ==
    /\ pc = "saved" /\ ~resaved
    /\ \E a \in held0 :
          /\ emptyReferent(heap, a.list) /\ ~IsStr(heap, a.list)
          /\ Introduced(a) /\ entriesOf(a) = 0 /\ indexOf(a) > 0
    /\ \E a \in held0 : a.list = NoneV /\ Introduced(a) /\ entriesOf(a) = 0

\* C15: TagField.writeToBuffer stores a tag of 4 characters as its characters
\* in reverse order and a tag of 3 characters as its characters in reverse
\* order followed by a zero byte, and TagField.readFromBuffer gives the tag
\* back, for every ASCII tag of 3 or 4 characters none of which is NUL;
\* "MD34" is stored as 34 33 44 4D and "DIV" as 56 49 44 00 (hex)
C15_TagRoundTrip ==
    (call.fn = "tag" /\ Len(ret) >= 1 /\ \A i \in 1..Len(call.a[1]) : call.a[1][i] # 0)
        => /\ ret[1].ok
           /\ \A i \in 1..Len(call.a[1]) : ret[1].b[i] = call.a[1][Len(call.a[1]) + 1 - i]
           /\ Len(ret[1].b) = 4
           /\ Len(call.a[1]) = 3 => ret[1].b[4] = 0
           /\ call.a[1] = N_MD34 => ret[1].b = <<52, 51, 68, 77>>
           /\ call.a[1] = N_DIV => ret[1].b = <<86, 73, 68, 0>>
           /\ Len(ret) = 2 => ret[2] = StrV(call.a[1])

\* "DIV" was written and read back
C15_Witness ==
    /\ call.fn = "tag" /\ call.a[1] = N_DIV
    /\ Len(ret) = 2 /\ ret[1].b = <<86, 73, 68, 0>> /\ ret[2] = StrV(N_DIV)

\* C16: for every field value x, every named bit whose mask the schema
\* reader accepts and every boolean v: setNamedBit(b, v) applied twice leaves
\* the value that applying it once leaves, and getNamedBit after
\* setNamedBit(b, true) is true
C16_NamedBitLaws ==
    (call.fn = "bit" /\ Len(ret) >= 3)
        => /\ ret[3] = ret[2]
           /\ (Len(ret) = 4 /\ call.a[3]) => ret[4] = TRUE

\* a bit with the mask 0x2 was set twice and then read as set
C16_Witness ==
    /\ call.fn = "bit" /\ Len(ret) = 4 /\ call.a[3]
    /\ ret[1][1]["b"] = 2 /\ ret[2] = BitOr(call.a[2], 2) /\ ret[4] = TRUE

\* the value that the default-constructed instance ret[1] holds in field i
defaultOf(i) == heap[ret[1].n].f[i]

\* the referent kind of field i of the description constructed: refTo
refToOf(i) == call.a[1].fields[i].historyOfReferencedStructures

\* C19 (as stated): in a default-constructed instance every reference field
\* holds the empty string when refTo is CHAR, an empty byte array when refTo
\* is U8__, and an empty list for every other refTo and without refTo
C19_DefaultReferentsEmpty ==
    (call.fn = "default" /\ Len(ret) = 1)
        => \A i \in 1..Len(call.a[1].fields) :
              IsReferenceField(call.a[1].fields[i])
                 => IF refToOf(i) = Some(N_CHAR)
                    THEN IsStr(heap, defaultOf(i)) /\ StrCodes(heap, defaultOf(i)) = <<>>
                    ELSE IF refToOf(i) = Some(N_U8)
                    THEN IsObj(heap, defaultOf(i), "bytearray")
                         /\ heap[defaultOf(i).n].e = <<>>
                    ELSE IsObj(heap, defaultOf(i), "list")
                         /\ heap[defaultOf(i).n].f = <<>>

\* C19 (amended): the same, with None in place of the empty string when
\* refTo is CHAR
C19_DefaultReferentsEmptyOrNone ==
    (call.fn = "default" /\ Len(ret) = 1)
        => \A i \in 1..Len(call.a[1].fields) :
              IsReferenceField(call.a[1].fields[i])
                 => IF refToOf(i) = Some(N_CHAR)
                    THEN defaultOf(i) = NoneV
                    ELSE IF refToOf(i) = Some(N_U8)
                    THEN IsObj(heap, defaultOf(i), "bytearray")
                         /\ heap[defaultOf(i).n].e = <<>>
                    ELSE IsObj(heap, defaultOf(i), "list")
                         /\ heap[defaultOf(i).n].f = <<>>

\* an instance was default-constructed of a description with a reference to
\* CHAR, a reference to structures and a reference without refTo
C19_Witness ==
    /\ call.fn = "default" /\ Len(ret) = 1
    /\ \E i, j, k \in 1..Len(call.a[1].fields) :
          /\ refToOf(i) = Some(N_CHAR) /\ defaultOf(i) = NoneV
          /\ refToOf(j) = Some(N_DIV) /\ IsObj(heap, defaultOf(j), "list")
          /\ call.a[1].fields[k].cls = "UnknownReferenceField"
          /\ IsObj(heap, defaultOf(k), "list")

----------------------------------------------------------------------------
(* The schema reader: C12, C13, C14 *)

hasDescription(field) ==
    field.cls = "EmbeddedStructureField" \/ IsReferenceField(field)

RECURSIVE sizeValidated(_, _)
\* the description's field sizes sum to its size, and so do those of the
\* descriptions its fields hold, n levels down
sizeValidated(desc, n) ==
    /\ calculatedSize(desc.fields) = desc.size
    /\ n > 0 =>
         \A i \in 1..Len(desc.fields) :
            hasDescription(desc.fields[i]) =>
               sizeValidated(desc.fields[i].structureDescription, n - 1)

fieldsValidated(fields) ==
    \A i \in 1..Len(fields) :
       hasDescription(fields[i]) =>
          sizeValidated(fields[i].structureDescription, MaxStructures)

\* C12: every structure description that exists (memoized by a history, held
\* by a field of a history or of the class being read, or returned to a
\* client) has field sizes that sum to its declared size; a getVersion that
\* raised the size mismatch memoized nothing for that version.
C12_DescriptionsHaveDeclaredSize ==
    /\ \A k \in 1..Len(ret.memo) : \A version \in DOMAIN ret.memo[k] :
          sizeValidated(ret.memo[k][version], MaxStructures)
    /\ \A k \in 1..Len(ret.created) : fieldsValidated(ret.created[k].allFields)
    /\ fieldsValidated(ret.fields)
    /\ ret.got.r = "ok" => sizeValidated(ret.got.desc, MaxStructures)
    /\ ret.got.r = "raise" => ret.got.version \notin DOMAIN ret.memo[ret.got.k]

\* a client asked for a version whose sizes disagree while another
\* description is memoized
C12_Witness ==
    /\ pc = "getVersionReturned"
    /\ ret.got.r = "raise"
    /\ \E k \in 1..Len(ret.memo) : ret.memo[k] # <<>>

historySizesAgree(history) ==
    \A version \in DOMAIN history.versionToSizeMap :
       calculatedSize(usedFields(history, version))
          = history.versionToSizeMap[version]

\* C13: a schema load that completes has, for every structure and every
\* declared version of it, used or not, field sizes that sum to the declared
\* size (otherwise the load aborted).
C13_LoadAbortsOnAnySizeMismatch ==
    pc = "schemaLoaded" =>
       \A k \in 1..Len(ret.created) : historySizesAgree(ret.created[k])

\* the load aborted on a size mismatch of a version a later field uses
C13_Witness ==
    /\ pc = "schemaFailed"
    /\ err = "Size mismatch"
    /\ ~historySizesAgree(ret.created[1])

namesBefore(k) == {call.a[m].structureName : m \in 1..(k - 1)}

\* the structures a field node names: that of its type and its refTo
namedBy(node) ==
    IF node.typeString = T_uint32 THEN {}
    ELSE {parseTypeString(node.typeString).name}
         \cup (IF node.refTo = None THEN {} ELSE {node.refTo[1]})

----------------------------------------------------------------------------
(* The walk of modelToSections: C29 *)

\* the activations of ReferenceField.introduceIndexReferences that are in
\* their loop over the elements of list l
walksInProgress(l) ==
    {i \in 1..Len(stack) : stack[i].mode = "elems" /\ stack[i].list = l}

\* C29: the graph walk of modelToSections terminates for every finite model
\* graph, a graph in which a list is reachable from one of its own elements
\* included, and never walks the same list without bound: a list whose
\* elements are being walked is not walked again from within that walk (the
\* inner walk would find what the outer one found and repeat it), and the
\* walk does not end by exhausting the interpreter's stack.
C29_WalkTerminates ==
    /\ pc = "walk" =>
          \A i \in 1..Len(stack) :
             stack[i].mode = "elems" =>
                Cardinality(walksInProgress(stack[i].list)) = 1
    /\ ~(pc = "failed" /\ err = "RecursionError")

\* the walk of the cyclic model was ended by the interpreter, the list being
\* walked by several nested activations
C29_Witness ==
    /\ pc = "failed" /\ err = "RecursionError"
    /\ \E i \in 1..Len(stack) :
          stack[i].mode = "elems"
          /\ Cardinality(walksInProgress(stack[i].list)) > 1

----------------------------------------------------------------------------
(* Resolution of the references of a loaded file: C21, C22, C28 *)

\* [owner, fi]: the reference fields of structure `id`, embedded structures
\* included: what M3Structure.resolveReferences calls resolveIndexReferences on
RECURSIVE ReferenceSlotsOf(_, _)
ReferenceSlotsOf(h, id) ==
    UNION {
        IF IsReferenceField(h[id].d.fields[i]) THEN {[owner |-> id, fi |-> i]}
        ELSE IF h[id].d.fields[i].cls = "EmbeddedStructureField"
        THEN ReferenceSlotsOf(h, h[id].f[i].n)
        ELSE {}
        : i \in 1..Len(h[id].d.fields) }

\* those of every structure of the content of section `sec`
ReferenceSlotsIn(h, sec) ==
    IF sec.structureDescription.isPrimitive THEN {}
    ELSE UNION {ReferenceSlotsOf(h, h[sec.content.n].f[i].n) :
                i \in 1..Len(h[sec.content.n].f)}

slotField(h, s) == h[s.owner].d.fields[s.fi]
slotValue(h, s) == h[s.owner].f[s.fi]
slotEntries(h, s) == GetAttr(h, slotValue(h, s).n, "entries")
slotIndex(h, s) == GetAttr(h, slotValue(h, s).n, "index").n

\* v is the empty collection of the referent kind of `field`: the empty
\* string for CHAR (or, with noneForChar, None), the empty byte array for
\* U8__, the empty list otherwise
emptyOfKind(h, v, field, noneForChar) ==
    IF field.historyOfReferencedStructures = Some(N_CHAR)
    THEN IF noneForChar THEN v = NoneV ELSE IsStr(h, v) /\ StrCodes(h, v) = <<>>
    ELSE IF field.historyOfReferencedStructures = Some(N_U8)
    THEN IsByteString(h, v) /\ ByteCodes(h, v) = <<>>
    ELSE IsObj(h, v, "list") /\ h[v.n].f = <<>>

\* the section of the loop of resolveReferencesOfSections is being resolved
ResolvingSection ==
    pc = "resolveReferencesOfSections" /\ cursor <= Len(sections)

\* in the step that resolves a section, every Reference record of it with
\* entries == 0 is resolved, by itself, without a failure and without a
\* change to any section, into the empty value of its kind; and the field
\* holds that value when the section has been resolved
emptyReferencesResolved(noneForChar) ==
    ResolvingSection =>
       \A s \in ReferenceSlotsIn(heap, sections[cursor]) :
          slotEntries(heap, s) = IntV(0) =>
             /\ \E r \in {resolveIndexReferences(slotField(heap, s), heap, sections,
                                                 s.owner, s.fi)} :
                   /\ r.ok
                   /\ r.secs = sections
                   /\ emptyOfKind(r.h, slotValue(r.h, s), slotField(heap, s),
                                  noneForChar)
             /\ pc' # "failed" =>
                   emptyOfKind(heap', slotValue(heap', s), slotField(heap, s),
                               noneForChar)

\* C21 as stated: on load, resolving a Reference record with entries == 0
\* replaces the field by the empty collection of its referent kind (the empty
\* string for CHAR) and touches no section, whatever the record's index is.
C21_EmptyReferenceIsEmptyCollection ==
    [][emptyReferencesResolved(FALSE)]_vars

\* C21: on load, resolving a Reference record with entries == 0 replaces the
\* field by the empty value of its referent kind (None for CHAR, the empty
\* byte array for U8__, the empty list otherwise) and touches no section: no
\* section's timesReferenced changes and no section is looked up, whatever
\* the record's index is (an index >= the number of sections included).
C21_EmptyReferenceTouchesNoSection ==
    [][emptyReferencesResolved(TRUE)]_vars

\* a model was returned from a file that held a Reference record with
\* entries == 0 and an index that is no section
C21_Witness ==
    /\ pc = "loaded"
    /\ \E id \in 1..Len(heap) :
          /\ heap[id].k = "M3Structure"
          /\ heap[id].d.structureName = N_Reference
          /\ GetAttr(heap, id, "entries") = IntV(0)
          /\ GetAttr(heap, id, "index").n >= Len(sections)

\* the number of elements countInstances counts in the value of a reference
\* field with a primitive referent
elementsOf(h, v, field) ==
    IF field.historyOfReferencedStructures = Some(N_CHAR)
    THEN PyLen(h, v) + 1
    ELSE PyLen(h, v)

\* C22: on load, resolving a reference with a primitive referent and
\* 0 < entries replaces the field by the referent section's buffer when
\* entries == repetitions and by a copy that holds only the first `entries`
\* elements when entries < repetitions, so the resolved value always has
\* exactly `entries` elements.
C22_PrimitiveReferentHasEntriesElements ==
    [][(ResolvingSection /\ pc' # "failed") =>
         \A s \in ReferenceSlotsIn(heap, sections[cursor]) :
            (isPrimitiveHistory(slotField(heap, s)) /\ slotEntries(heap, s) # IntV(0)) =>
               \E sec \in {sections[slotIndex(heap, s) + 1]} :
                  /\ elementsOf(heap', slotValue(heap', s), slotField(heap, s))
                        = slotEntries(heap, s).n
                  /\ slotEntries(heap, s) = GetAttr(heap, sec.indexEntry, "repetitions")
                        => slotValue(heap', s) = sec.content
                  /\ IntLess(slotEntries(heap, s),
                             GetAttr(heap, sec.indexEntry, "repetitions"))
                        => slotValue(heap', s) # sec.content]_vars

\* a model was returned from a file in which the repetitions of a section of
\* bytes exceed the entries of the reference to it
C22_Witness ==
    /\ pc = "loaded" /\ tampered /\ edited.f = "repetitions"
    /\ \E i \in 2..Len(sections) :
          /\ sections[i].structureDescription.structureName = N_U8
          /\ GetAttr(heap, sections[i].indexEntry, "repetitions").n
                = PyLen(heap, sections[i].content)
          /\ \E id \in 1..Len(heap) :
                /\ heap[id].k = "M3Structure"
                /\ heap[id].d.structureName = N_Reference
                /\ GetAttr(heap, id, "index") = IntV(i - 1)
                /\ IntLess(GetAttr(heap, id, "entries"),
                           GetAttr(heap, sections[i].indexEntry, "repetitions"))
                /\ GetAttr(heap, id, "entries") # IntV(0)

----------------------------------------------------------------------------
(* The section list of modelToSections: C23, C26, C27 *)

\* modelToSections has returned its section list
SectionsMade == pc \in {"saveSections", "saveSections.try"}

\* the sum of len(rawBytes) of sections 1..k of the list
RECURSIVE rawBytesBefore(_)
rawBytesBefore(k) ==
    IF k = 0 THEN 0 ELSE rawBytesBefore(k - 1) + Len(sections[k].rawBytes)

\* C23: for the section list produced by modelToSections, the offset of each
\* section's index entry is the sum of len(rawBytes) of the sections before
\* it (offsets start at 0, are multiples of 16 and strictly increase),
\* header.indexOffset is the sum of len(rawBytes) of all sections and
\* header.indexSize is the number of sections; so neither position check of
\* saveSections fails.
C23_OffsetsAreRunningSums ==
    /\ SectionsMade =>
          /\ \A k \in 1..Len(sections) :
                /\ GetAttr(heap, sections[k].indexEntry, "offset")
                      = IntV(rawBytesBefore(k - 1))
                /\ rawBytesBefore(k - 1) % 16 = 0
                /\ k > 1 => rawBytesBefore(k - 2) < rawBytesBefore(k - 1)
          /\ GetAttr(heap, header, "indexOffset") = IntV(rawBytesBefore(Len(sections)))
          /\ GetAttr(heap, header, "indexSize") = IntV(Len(sections))
          /\ WriteSectionsFrom(heap, sections, 1, <<>>).ok
          /\ Len(WriteSectionsFrom(heap, sections, 1, <<>>).out)
                = GetAttr(heap, header, "indexOffset").n
    /\ ~(pc = "failed" /\ err = "saveSections")

\* a list of at least three sections of different lengths was made
C23_Witness ==
    /\ pc = "saveSections.try"
    /\ Len(sections) >= 3
    /\ Len(sections[2].rawBytes) > Len(sections[3].rawBytes)
    /\ GetAttr(heap, sections[3].indexEntry, "offset").n
          = Len(sections[1].rawBytes) + Len(sections[2].rawBytes)

----------------------------------------------------------------------------
(* The descriptions of M3StructureHistory.getVersion: C24 *)

\* the fields of a history whose version range contains `version`
fieldsVisibleAt(history, version) ==
    SelectSeq(history.allFields,
              LAMBDA f : /\ (f.sinceVersion = None \/ f.sinceVersion[1] <= version)
                         /\ (f.tillVersion = None \/ version <= f.tillVersion[1]))

\* C24: getVersion(v) returns for a declared version v a description whose
\* field list is exactly the history's fields f with (f.sinceVersion absent
\* or f.sinceVersion <= v) and (f.tillVersion absent or v <= f.tillVersion),
\* in schema order, and it fails for a declared version only when the sizes
\* of these fields do not sum to the declared size; a repeated call with the
\* same v returns the memoized description; for a version that is not
\* declared it returns no description and memoizes nothing.
C24_GetVersionFiltersAndMemoizes ==
    [][(pc = "schemaLoaded" /\ pc' = "getVersionReturned") =>
        LET k == ret'.got.k
            v == ret'.got.version
            history == ret.structures[k]
            declared == v \in DOMAIN history.versionToSizeMap
        IN /\ v \in DOMAIN ret.memo[k] =>
                /\ ret'.got.r = "ok"
                /\ ret'.got.desc = ret.memo[k][v]
                /\ ret'.memo = ret.memo
           /\ ret'.got.r = "ok" =>
                /\ declared
                /\ ret'.got.desc.fields = fieldsVisibleAt(history, v)
                /\ v \in DOMAIN ret'.memo[k]
                /\ ret'.memo[k][v] = ret'.got.desc
           /\ ret'.got.r = "none" <=> ~declared
           /\ ret'.got.r = "none" => ret'.memo = ret.memo
           /\ ret'.got.r = "raise" =>
                /\ declared
                /\ calculatedSize(fieldsVisibleAt(history, v))
                      # history.versionToSizeMap[v]
                /\ ret'.memo = ret.memo
      ]_vars

\* getVersion(1) returned a description that leaves out a field with
\* till-version 0
C24_Witness ==
    /\ pc = "getVersionReturned"
    /\ ret.got.r = "ok"
    /\ ret.got.version = 1
    /\ \E i \in 1..Len(ret.structures[ret.got.k].allFields) :
          ret.structures[ret.got.k].allFields[i].tillVersion = Some(0)
    /\ Len(ret.got.desc.fields) < Len(ret.structures[ret.got.k].allFields)

----------------------------------------------------------------------------
(* The section lengths of loadSections: C25 *)

\* the offsets of all index entries together with header.indexOffset
allOffsets ==
    {GetAttr(heap, sections[k].indexEntry, "offset").n : k \in 1..Len(sections)}
    \cup {GetAttr(heap, header, "indexOffset").n}

\* the next value of allOffsets above o; indexOffset where there is none
nextLargerOffset(o) ==
    IF \E x \in allOffsets : x > o
    THEN CHOOSE x \in allOffsets : x > o /\ \A y \in allOffsets : y > o => x <= y
    ELSE GetAttr(heap, header, "indexOffset").n

\* every section of a loaded file has the bytes up to the next larger offset
lengthsAreDistances ==
    (pc = "loadSections.finally" /\ err = "") =>
        \A k \in 1..Len(sections) :
            Len(sections[k].rawBytes)
                = nextLargerOffset(GetAttr(heap, sections[k].indexEntry, "offset").n)
                    - GetAttr(heap, sections[k].indexEntry, "offset").n

\* C25: in loadSections the number of bytes read for a section is the
\* distance from its entry's offset to the next larger value among all entry
\* offsets and header.indexOffset, the section with the largest offset ends
\* at indexOffset, and for every index table a length is found for every
\* section: the lookup of offsetToSizeMap never fails, also with duplicate
\* offsets or an entry offset not below indexOffset.
C25_LengthFoundForEverySection ==
    /\ lengthsAreDistances
    /\ ~(pc = "loadSections.finally" /\ err = "KeyError")

\* a file with an edited index entry offset was read and its sections got
\* their lengths
C25_Witness ==
    /\ pc = "loadSections.finally"
    /\ err = ""
    /\ tampered
    /\ edited.f = "offset"
    /\ Len(sections) >= 2

\* C26, first part: after modelToSections every Reference record with
\* entries > 0 in the content of a section has an index below the number
\* of sections, names the section whose content is the list the field held
\* before the save, with repetitions equal to entries and with the tag and
\* version of the structure of that list's elements.
recordsNameTheirSections ==
    SectionsMade =>
        \A k \in 1..Len(sections) : \A s \in ReferenceSlotsIn(heap, sections[k]) :
            (slotEntries(heap, s).n > 0) =>
                /\ slotIndex(heap, s) < Len(sections)
                /\ LET sec == sections[slotIndex(heap, s) + 1]
                   IN /\ \A a \in held0 : (a.obj = s.owner /\ a.fi = s.fi) =>
                              sec.content = a.list
                      /\ s.owner = header =>
                              heap[sec.content.n].f = <<ObjV(model)>>
                      /\ GetAttr(heap, sec.indexEntry, "repetitions")
                            = slotEntries(heap, s)
                      /\ GetAttr(heap, sec.indexEntry, "tag").s
                            = sec.structureDescription.structureName
                      /\ GetAttr(heap, sec.indexEntry, "version").n
                            = sec.structureDescription.structureVersion
                      /\ ~sec.structureDescription.isPrimitive =>
                            /\ IsObj(heap, sec.content, "list")
                            /\ heap[heap[sec.content.n].f[1].n].d = sec.structureDescription

\* C26: ... that is, a file written by save never violates the checks that
\* resolveIndexReferences makes of a reference when the file is loaded.
C26_SavedReferencesPassLoaderChecks ==
    /\ recordsNameTheirSections
    /\ SectionsMade =>
          \A k \in 1..Len(sections) : \A s \in ReferenceSlotsIn(heap, sections[k]) :
              Resolvable(heap, sections, slotField(heap, s), slotValue(heap, s).n)

\* the section list of the model whose `nodes` list holds a MODL was made
C26_Witness ==
    /\ pc = "saveSections"
    /\ Len(sections) = 3
    /\ sections[3].structureDescription.structureName = N_MODL
    /\ \E s \in ReferenceSlotsIn(heap, sections[2]) :
          /\ slotField(heap, s).name = "nodes"
          /\ slotIndex(heap, s) = 2
          /\ slotEntries(heap, s) = IntV(1)

\* the Reference records with entries > 0 in the contents of the sections
\* that name section number i (counted from 0)
recordsNaming(i) ==
    UNION {{s \in ReferenceSlotsIn(heap, sections[k]) :
               /\ slotEntries(heap, s).n > 0
               /\ slotIndex(heap, s) = i} : k \in 1..Len(sections)}

\* C27: after modelToSections every section with index >= 1 is named by at
\* least one Reference record with entries > 0 that is stored in the content
\* of a section of the same list, so a file written by save never fails the
\* unreferenced-section check of the loader.
C27_EverySectionIsReferenced ==
    /\ SectionsMade => \A i \in 1..(Len(sections) - 1) : recordsNaming(i) # {}
    /\ ~(pc = "failed" /\ err = "checkThatAllSectionsGotReferenced" /\ ~tampered)

\* a list of four or more sections was made, one of them named by two records
C27_Witness ==
    /\ pc = "saveSections"
    /\ Len(sections) >= 4
    /\ \E i \in 1..(Len(sections) - 1) : Cardinality(recordsNaming(i)) >= 2

\* the reference field of slot s holds a Reference record
holdsRecord(h, s) ==
    /\ IsStructure(h, slotValue(h, s))
    /\ h[slotValue(h, s).n].d.structureName = N_Reference

\* resolveReferencesOfSections is running or has completed without error
Resolving == pc \in {"resolveReferencesOfSections", "checked"}

\* the sections before the cursor are resolved, the others are not yet
resolvedUpToCursor ==
    Resolving =>
        /\ \A k \in 1..Len(sections) : \A s \in ReferenceSlotsIn(heap, sections[k]) :
              holdsRecord(heap, s) <=> (pc = "resolveReferencesOfSections" /\ k >= cursor)
        /\ cursor = 1 => \A k \in 1..Len(sections) : sections[k].timesReferenced = 0

\* one section's resolution counts its records with entries > 0, per index
countsRecordsOfSection ==
    (ResolvingSection /\ pc' # "failed") =>
        \A i \in 1..Len(sections) :
            sections'[i].timesReferenced
                = sections[i].timesReferenced
                  + Cardinality({s \in ReferenceSlotsIn(heap, sections[cursor]) :
                                    /\ slotEntries(heap, s).n > 0
                                    /\ slotIndex(heap, s) = i - 1})

\* C28: after resolveReferencesOfSections completes without error every
\* reference field of every structure in every section's content, embedded
\* structures included, has been resolved exactly once and holds no
\* Reference record any more, and each section's timesReferenced is the
\* number of Reference records with entries > 0 and that section's index
\* that were in the contents of all sections.
C28_EveryReferenceResolvedOnce ==
    [](resolvedUpToCursor) /\ [][countsRecordsOfSection]_vars

\* resolution completed for a file whose MODL section holds a structure with
\* an embedded BOX_, and the reference field of the BOX_ holds a byte array
C28_Witness ==
    /\ pc = "checked"
    /\ \E k \in 1..Len(sections) :
          /\ sections[k].structureDescription = ModlV2
          /\ \E s \in ReferenceSlotsIn(heap, sections[k]) :
                /\ heap[s.owner].d = BoxV0
                /\ IsObj(heap, slotValue(heap, s), "bytearray")
                /\ \E i \in 1..Len(sections) : sections[i].timesReferenced = 1

----------------------------------------------------------------------------
(* Saving a model that was saved before: C30 *)

\* the steps of a save before saveSections, and its failures there; a file
\* opened for writing is empty from then on, and the model keeps one file
notYetOpened ==
    \/ pc \in {"save", "modelToSections", "walk", "determineFieldRawBytes"}
    \/ pc = "failed" /\ err \in BeforeOpenErrors

\* C30: after a successful saveAndInvalidateModel(M, p) every reference field
\* reachable from M holds a Reference record instead of its content, and a
\* second saveAndInvalidateModel(M, q) of that model, which has at least one
\* reference field, fails before the file q is opened.
C30_SavedModelIsInvalidated ==
    /\ (pc = "saved" /\ ~secondSave) =>
          /\ \A a \in held0 : Introduced(a)
          /\ \A k \in 1..Len(sections) : \A s \in ReferenceSlotsIn(heap, sections[k]) :
                holdsRecord(heap, s)
    /\ secondSave =>
          /\ notYetOpened
          /\ pc # "determineFieldRawBytes"
          /\ openFiles = {}
          /\ hasFile /\ file # <<>>

\* the second save of a model with its reference fields replaced has failed
C30_Witness ==
    /\ secondSave
    /\ pc = "failed"
    /\ err = "introduceIndexReferences"
    /\ \E a \in held0 : a.obj = model /\ Introduced(a) /\ entriesOf(a) > 0
====
